---- MODULE Spec2Model ----
(***************************************************************************)
(* BookERP Pro v2 (src/book_erp_v2/main.py, services.py, models.py): the   *)
(* order-to-cash pipeline SalesOrder -> Challan -> Invoice -> Payment, the *)
(* stock ledger and return notes, as a state machine over the database     *)
(* tables.                                                                 *)
(*                                                                         *)
(* A table is a sequence of rows; a row's id is its position (ids are      *)
(* auto-increment primary keys and no handler deletes a row).  Every       *)
(* handler opens one Session; Session.commit() makes all pending writes of *)
(* that session durable, and leaving the `with Session` block by an        *)
(* HTTPException discards whatever is pending since the last commit.       *)
(* A session is the pair [com |-> committed tables, work |-> tables as the *)
(* session sees them].                                                     *)
(*                                                                         *)
(* Money is held in paise (1/100 rupee) and percentages in whole percent.  *)
(***************************************************************************)
EXTENDS Integers, Sequences, FiniteSets, TLC

\* ------------------------------------------------------------ bounds
NumItems == 2
NumWarehouses == 1
NumParties == 1
MaxQty == 2          \* request quantities range over -NegQty..MaxQty
NegQty == 1
MaxStock == 4        \* a request that would take a row above it is not issued
MaxOrders == 1
MaxSoLines == 2
MaxChallans == 2
MaxReturns == 1
MaxRetLines == 2
MaxInvoices == 2
MaxPayments == 1
NumReqs == 2         \* requests in flight at once
Today == 100         \* date.today() as a day ordinal
OldDays == 31        \* an invoice may be dated Today or OldDays earlier
MaxLinesV1 == 2      \* InvoiceLine rows of the v1 application (app.py)
MaxPaymentsV1 == 2   \* Payment rows of the v1 application
MaxViewLines == 2    \* InvoiceLine rows of the database an invoice is viewed in
MaxMonths == 2       \* months the clock passes through
MaxDocs == 3         \* rows of a table whose rows are made without a precondition
MaxParties == 2      \* Party rows once parties_create is among the requests
FirstMonth == 202501 \* the month the application is started in

Items == 1..NumItems
Warehouses == 1..NumWarehouses
Parties == 1..NumParties
Qtys == (0 - NegQty)..MaxQty
InvoiceDates == {Today - OldDays, Today}

\* The Item table (items_create): sale_price in paise, gst_percent in percent.
Item(it) ==
  IF it = 1 THEN [id |-> it, sale_price |-> 10000, gst_percent |-> 12]
  ELSE [id |-> it, sale_price |-> 3333, gst_percent |-> 5]

\* A Party row as parties_create makes it: state (`state or None`),
\* credit_limit in paise (0.0 by default), payment_terms_days, is_blocked
\* (False, the column default).
NewParty(state, credit_limit, terms) ==
  [state |-> IF state = "" THEN "None" ELSE state,
   credit_limit |-> credit_limit, payment_terms_days |-> terms, is_blocked |-> FALSE]

VARIABLES
  db,      \* the committed database: one field per table
  last,    \* the response of the last request: [op, id, code, msg]
  req,     \* requests in flight, each in a worker thread with its own Session
  now      \* datetime.now().strftime('%Y%m'): the month of the clock, as YYYYMM

vars == <<db, last, req, now>>

\* ------------------------------------------------------------ sessions
Begin(d) == [com |-> d, work |-> d]
Commit(s) == [com |-> s.work, work |-> s.work]
Rollback(s) == s.com

Resp(op, id, code, msg) == [op |-> op, id |-> id, code |-> code, msg |-> msg]

\* The Stock table is held grouped by (warehouse_id, item_id): stock[k] is the
\* sequence of the qty of the rows of key k, in id order.
\* select(Stock).where(warehouse_id == wh, item_id == it).first() is its head.
HasStock(t, wh, it) == t[<<wh, it>>] # <<>>
StockQty(t, wh, it) == t[<<wh, it>>][1]
SetStockQty(t, wh, it, q) == [t EXCEPT ![<<wh, it>>][1] = q]

\* mutant of get_stock: a row of qty 0 is added whether or not one exists
get_stock_Always(s, wh, it) ==
  Commit([s EXCEPT !.work.stock[<<wh, it>>] = IF @ = <<>> THEN <<0>> ELSE Append(@, 0)])

\* services.get_stock: the row of (warehouse, item); a missing row is added
\* with qty 0 and the session is committed on the spot.
get_stock(s, wh, it) ==
  IF ~HasStock(s.work.stock, wh, it)
  THEN Commit([s EXCEPT !.work.stock[<<wh, it>>] = <<0>>])
  ELSE s

\* session.get(T, id).status, "None" when the row does not exist
StatusOf(t, id) == IF id \in DOMAIN t THEN t[id].status ELSE "None"

RECURSIVE SelectWhere(_, _, _)
\* rows of table t (with their ids) whose field f equals v, in id order
SelectWhere(t, f, v) ==
  IF t = <<>> THEN <<>>
  ELSE LET n == Len(t)
           rest == SelectWhere(SubSeq(t, 1, n - 1), f, v)
       IN IF t[n][f] = v THEN Append(rest, [id |-> n, row |-> t[n]]) ELSE rest

\* ------------------------------------------------------------ money
\* round(): n/d to the nearest integer, a tie to the even one; n may be negative
Round(n, d) ==
  LET q == n \div d
      r == n - q * d
  IN IF 2 * r > d THEN q + 1
     ELSE IF 2 * r < d THEN q
     ELSE IF q % 2 = 0 THEN q ELSE q + 1

\* mutant of apply_party_price: the override's discount is used as stored
apply_party_price_NoClamp(d, party, it) ==
  LET pp == d.partyPrice[<<party, it.id>>]
  IN IF pp = <<>> THEN <<it.sale_price, 0>>
     ELSE <<Round(it.sale_price * (100 - pp[1]), 100), pp[1]>>

\* services.apply_party_price: <<rate, discount_percent>> of item it for party
apply_party_price(d, party, it) ==
  LET pp == d.partyPrice[<<party, it.id>>]
  IN IF pp = <<>> THEN <<it.sale_price, 0>>
     ELSE LET disc == IF pp[1] < 0 THEN 0 ELSE IF pp[1] > 100 THEN 100 ELSE pp[1]
          IN <<Round(it.sale_price * (100 - disc), 100), disc>>

\* taxable value of one line in 1/100 paise: amt - amt * (discount_percent / 100)
Taxable(qty, rate, disc) == qty * rate * (100 - disc)

RECURSIVE SumLines_RoundEach(_, _)
\* mutant of SumLines: the taxable value of every line is rounded to paise
SumLines_RoundEach(lns, i) ==
  IF i > Len(lns) THEN <<0, 0>>
  ELSE LET ln == lns[i].row
           tx == Round(Taxable(ln.qty, ln.rate, ln.discount_percent), 100) * 100
           rest == SumLines_RoundEach(lns, i + 1)
       IN <<rest[1] + tx, rest[2] + tx * ln.gst_percent>>

RECURSIVE SumLines(_, _)
\* <<sum of taxable in 1/100 paise, sum of gst in 1/10000 paise>> over lines
SumLines(lns, i) ==
  IF i > Len(lns) THEN <<0, 0>>
  ELSE LET ln == lns[i].row
           tx == Taxable(ln.qty, ln.rate, ln.discount_percent)
           rest == SumLines(lns, i + 1)
       IN <<rest[1] + tx, rest[2] + tx * ln.gst_percent>>

RECURSIVE SumAmount(_, _)
SumAmount(pays, i) ==
  IF i > Len(pays) THEN 0 ELSE pays[i].row.amount + SumAmount(pays, i + 1)

\* services.invoice_totals, every value in paise
invoice_totals(d, invoice_id) ==
  LET s == SumLines(SelectWhere(d.invLines, "invoice_id", invoice_id), 1)
      total == s[1] * 100 + s[2]
      paid == SumAmount(SelectWhere(d.payments, "invoice_id", invoice_id), 1)
  IN [subtotal |-> Round(s[1], 100),
      gst |-> Round(s[2], 10000),
      total |-> Round(total, 10000),
      paid |-> paid,
      balance |-> Round(total - paid * 10000, 10000)]

RECURSIVE SumSummary_Billed(_, _, _, _)
\* mutant of SumSummary: what was billed is counted, not what is still due
SumSummary_Billed(d, terms, invs, i) ==
  IF i > Len(invs) THEN <<0, 0>>
  ELSE LET bal == invoice_totals(d, invs[i].id).total
           rest == SumSummary_Billed(d, terms, invs, i + 1)
       IN IF bal <= 0 THEN rest
          ELSE <<rest[1] + bal,
                 rest[2] + (IF terms > 0 /\ Today > invs[i].row.invoice_date + terms THEN bal ELSE 0)>>

RECURSIVE SumSummary_Net(_, _, _, _)
\* mutant of SumSummary: an over-paid invoice is netted against the others
SumSummary_Net(d, terms, invs, i) ==
  IF i > Len(invs) THEN <<0, 0>>
  ELSE LET bal == invoice_totals(d, invs[i].id).balance
           rest == SumSummary_Net(d, terms, invs, i + 1)
       IN <<rest[1] + bal,
            rest[2] + (IF terms > 0 /\ Today > invs[i].row.invoice_date + terms THEN bal ELSE 0)>>

RECURSIVE SumSummary(_, _, _, _)
\* the loop of calc_party_summary over the party's invoices
SumSummary(d, terms, invs, i) ==
  IF i > Len(invs) THEN <<0, 0>>
  ELSE LET bal == invoice_totals(d, invs[i].id).balance
           rest == SumSummary(d, terms, invs, i + 1)
       IN IF bal <= 0 THEN rest
          ELSE <<rest[1] + bal,
                 rest[2] + (IF terms > 0 /\ Today > invs[i].row.invoice_date + terms THEN bal ELSE 0)>>

\* main.calc_party_summary
calc_party_summary(d, party) ==
  LET r == SumSummary(d, d.parties[party].payment_terms_days, SelectWhere(d.invoices, "party_id", party), 1)
  IN [outstanding |-> r[1], overdue |-> r[2]]

\* mutant of DerivedStatus: only a balance of exactly zero counts as paid
DerivedStatus_ExactOnly(tot) ==
  IF tot.total <= 0 THEN "OPEN"
  ELSE IF tot.balance = 0 THEN "PAID"
  ELSE IF tot.paid > 0 THEN "PARTIAL"
  ELSE "OPEN"

\* app.update_invoice_status: the status derived from an invoice's totals
\* (balance <= 0.001 on a balance rounded to 2 decimals: balance <= 0 paise)
DerivedStatus(tot) ==
  IF tot.total <= 0 THEN "OPEN"
  ELSE IF tot.balance <= 0 THEN "PAID"
  ELSE IF tot.paid > 0 THEN "PARTIAL"
  ELSE "OPEN"

\* ------------------------------------------------------------ stock
\* mutant of stock_adjust: a delta that empties the row is turned away too
stock_adjust_ZeroFails(wh, it, delta) ==
  LET s1 == get_stock(Begin(db), wh, it)
      q == StockQty(s1.work.stock, wh, it) + delta
  IN \/ /\ q <= 0 /\ delta # 0
        /\ db' = Rollback(s1)
        /\ last' = Resp("stock_adjust", 0, 400, "Stock cannot go negative")
     \/ /\ (q > 0 \/ (q = 0 /\ delta = 0))
        /\ q <= MaxStock
        /\ db' = Commit([s1 EXCEPT !.work.stock = SetStockQty(@, wh, it, q)]).com
        /\ last' = Resp("stock_adjust", 0, 303, "ok")

\* POST /stock/adjust (main.py; the handler of app.py is the same code)
stock_adjust(wh, it, delta) ==
  LET s1 == get_stock(Begin(db), wh, it)
      q == StockQty(s1.work.stock, wh, it) + delta
  IN \/ /\ q < 0
        /\ db' = Rollback(s1)
        /\ last' = Resp("stock_adjust", 0, 400, "Stock cannot go negative")
     \/ /\ q >= 0
        /\ q <= MaxStock
        /\ db' = Commit([s1 EXCEPT !.work.stock = SetStockQty(@, wh, it, q)]).com
        /\ last' = Resp("stock_adjust", 0, 303, "ok")

\* ------------------------------------------------------------ numbering
\* A document number is the string p + tail, p being f"{prefix}-{YYYYMM}-":
\* [head |-> <<prefix, month>>, tail |-> the characters after p, as digits].
\* The number columns so_no, dc_no, invoice_no and rn_no are held beside
\* their tables, in row id order.

RECURSIVE Str(_)
\* str(n) of n >= 0: its decimal digits
Str(n) == IF n < 10 THEN <<n>> ELSE Append(Str(n \div 10), n % 10)

RECURSIVE zfill(_, _)
\* str.zfill(width): zeros on the left up to width characters
zfill(ds, width) == IF Len(ds) >= width THEN ds ELSE zfill(<<0>> \o ds, width)

RECURSIVE int(_)
\* int(x) of a string of digits
int(ds) == IF ds = <<>> THEN 0 ELSE int(SubSeq(ds, 1, Len(ds) - 1)) * 10 + ds[Len(ds)]

\* the column next_no reads for a prefix
Existing(d, prefix) ==
  IF prefix = "SO" THEN d.so_no
  ELSE IF prefix = "DC" THEN d.dc_no
  ELSE IF prefix = "RN" THEN d.rn_no
  ELSE d.invoice_no

\* mutant of Max: the least element
Max_Least(S) == CHOOSE m \in S : \A x \in S : m <= x

\* max(nums)
Max(S) == CHOOSE m \in S : \A x \in S : x <= m

\* mutant of next_no: the numbers of the month are counted
next_no_Count(prefix, d, month) ==
  LET p == <<prefix, month>>
      existing == Existing(d, prefix)
      nums == {i \in DOMAIN existing : existing[i].head = p}
  IN [head |-> p, tail |-> zfill(Str(Cardinality(nums) + 1), 4)]

\* mutant of next_no: the numbers of every month are looked at
next_no_AllMonths(prefix, d, month) ==
  LET p == <<prefix, month>>
      existing == Existing(d, prefix)
      nums == {int(existing[i].tail) : i \in DOMAIN existing}
      n == IF nums # {} THEN Max(nums) + 1 ELSE 1
  IN [head |-> p, tail |-> zfill(Str(n), 4)]

\* main.next_no, and app.next_invoice_no for the prefix "INV"
next_no(prefix, d, month) ==
  LET p == <<prefix, month>>
      existing == Existing(d, prefix)
      nums == {int(existing[i].tail) : i \in {i \in DOMAIN existing : existing[i].head = p}}
      n == IF nums # {} THEN Max(nums) + 1 ELSE 1
  IN [head |-> p, tail |-> zfill(Str(n), 4)]

\* mutant of Duplicate: the number columns have no unique index
Duplicate_NoIndex(col, no) == FALSE

\* unique=True of a number column: the INSERT of a number the column holds
\* raises IntegrityError
Duplicate(col, no) == \E i \in DOMAIN col : col[i] = no

\* ------------------------------------------------------------ sales orders
\* POST /sales-orders/create
so_create(party, wh) ==
  /\ Len(db.orders) < MaxDocs
  /\ LET so_no == next_no("SO", db, now)
     IN IF Duplicate(db.so_no, so_no)
        THEN /\ last' = Resp("so_create", 0, 500, "IntegrityError")
             /\ UNCHANGED db
        ELSE /\ db' = [db EXCEPT
                        !.orders = Append(@, [party_id |-> party, warehouse_id |-> wh, status |-> "OPEN"]),
                        !.so_no = Append(@, so_no)]
             /\ last' = Resp("so_create", Len(db.orders) + 1, 303, "ok")

\* POST /sales-orders/{so_id}/add-line
so_add_line(so_id, it, qty) ==
  \/ /\ so_id \notin DOMAIN db.orders
     /\ last' = Resp("so_add_line", so_id, 404, "SO not found")
     /\ UNCHANGED db
  \/ /\ so_id \in DOMAIN db.orders
     /\ Len(db.soLines) < MaxSoLines
     /\ LET rd == apply_party_price(db, db.orders[so_id].party_id, Item(it))
        IN db' = [db EXCEPT !.soLines = Append(@,
                   [so_id |-> so_id, item_id |-> it, qty |-> qty, rate |-> rd[1],
                    gst_percent |-> Item(it).gst_percent, discount_percent |-> rd[2]])]
     /\ last' = Resp("so_add_line", so_id, 303, "ok")

\* POST /sales-orders/{so_id}/approve
so_approve(so_id) ==
  \/ /\ so_id \notin DOMAIN db.orders
     /\ last' = Resp("so_approve", so_id, 404, "SO not found")
     /\ UNCHANGED db
  \/ /\ so_id \in DOMAIN db.orders
     /\ db' = [db EXCEPT !.orders[so_id].status = "APPROVED"]
     /\ last' = Resp("so_approve", so_id, 303, "ok")

\* ------------------------------------------------------------ challans
\* mutant of SoNotApproved: only a missing or OPEN order is turned away
SoNotApproved_OpenOnly(d, so_id) == StatusOf(d.orders, so_id) \in {"None", "OPEN"}

\* `not so or so.status != "APPROVED"`
SoNotApproved(d, so_id) == StatusOf(d.orders, so_id) # "APPROVED"

\* mutant of DispatchLine: the stock row is decremented by one copy, not by ln.qty
DispatchLine_ByOne(s, wh, dc_id, ln) ==
  [s EXCEPT !.work.stock = SetStockQty(@, wh, ln.item_id, StockQty(@, wh, ln.item_id) - 1),
            !.work.dcLines = Append(@, [dc_id |-> dc_id, item_id |-> ln.item_id, qty |-> ln.qty])]

\* mutant of DispatchLine: the ChallanLine is booked on the first challan
DispatchLine_FirstChallan(s, wh, dc_id, ln) ==
  [s EXCEPT !.work.stock = SetStockQty(@, wh, ln.item_id, StockQty(@, wh, ln.item_id) - ln.qty),
            !.work.dcLines = Append(@, [dc_id |-> 1, item_id |-> ln.item_id, qty |-> ln.qty])]

\* one line that passed the stock test: st.qty -= ln.qty and the ChallanLine
\* copied from it, both pending in the session
DispatchLine(s, wh, dc_id, ln) ==
  [s EXCEPT !.work.stock = SetStockQty(@, wh, ln.item_id, StockQty(@, wh, ln.item_id) - ln.qty),
            !.work.dcLines = Append(@, [dc_id |-> dc_id, item_id |-> ln.item_id, qty |-> ln.qty])]

RECURSIVE DispatchLines(_, _, _, _)
\* the loop of challan_create over the order's lines: [ok, s, item], item
\* being the item of the line that failed the stock test
DispatchLines(s, wh, dc_id, lns) ==
  IF lns = <<>> THEN [ok |-> TRUE, s |-> s, item |-> 0]
  ELSE LET ln == Head(lns).row
           s1 == get_stock(s, wh, ln.item_id)
       IN IF StockQty(s1.work.stock, wh, ln.item_id) < ln.qty
          THEN [ok |-> FALSE, s |-> s1, item |-> ln.item_id]
          ELSE DispatchLines(DispatchLine(s1, wh, dc_id, ln), wh, dc_id, Tail(lns))

\* POST /challans/create
challan_create(so_id) ==
  \/ /\ SoNotApproved(db, so_id)
     /\ last' = Resp("challan_create", so_id, 400, "SO not approved")
     /\ UNCHANGED db
  \/ /\ ~SoNotApproved(db, so_id)
     /\ so_id \in DOMAIN db.orders
     /\ Len(db.challans) < MaxChallans
     /\ LET s0 == Begin(db)
            dc_id == Len(db.challans) + 1
            dc_no == next_no("DC", db, now)
            s1 == Commit([s0 EXCEPT !.work.challans = Append(@, [so_id |-> so_id, status |-> "OPEN"]),
                                    !.work.dc_no = Append(@, dc_no)])
            r == DispatchLines(s1, db.orders[so_id].warehouse_id, dc_id, SelectWhere(db.soLines, "so_id", so_id))
        IN IF Duplicate(db.dc_no, dc_no)
           THEN /\ last' = Resp("challan_create", so_id, 500, "IntegrityError")
                /\ UNCHANGED db
           ELSE IF r.ok
           THEN /\ db' = Commit([r.s EXCEPT !.work.orders[so_id].status = "DISPATCHED"]).com
                /\ last' = Resp("challan_create", so_id, 303, "ok")
           ELSE /\ db' = Rollback(r.s)
                /\ last' = Resp("challan_create", so_id, 400, "Insufficient stock")

\* ------------------------------------------------------------ invoices
\* mutant of set_party_price: the lines of the party's invoices are re-priced too
set_party_price_Retro(party, it, disc) ==
  /\ db' = [db EXCEPT
              !.partyPrice[<<party, it>>] = IF @ = <<>> THEN <<disc>> ELSE [@ EXCEPT ![1] = disc],
              !.invLines = [k \in DOMAIN @ |->
                 IF @[k].item_id = it /\ db.invoices[@[k].invoice_id].party_id = party
                 THEN [@[k] EXCEPT !.rate = Round(Item(it).sale_price * (100 - disc), 100),
                                   !.discount_percent = disc]
                 ELSE @[k]]]
  /\ last' = Resp("set_party_price", party, 303, "ok")

\* POST /parties/price
set_party_price(party, it, disc) ==
  /\ db' = [db EXCEPT !.partyPrice[<<party, it>>] = IF @ = <<>> THEN <<disc>> ELSE [@ EXCEPT ![1] = disc]]
  /\ last' = Resp("set_party_price", party, 303, "ok")

RECURSIVE Projected_NoDiscount(_, _, _, _)
\* mutant of Projected: the discount is not taken off the projected amount
Projected_NoDiscount(d, party, dc_lines, i) ==
  IF i > Len(dc_lines) THEN 0
  ELSE LET it == Item(dc_lines[i].row.item_id)
           rd == apply_party_price(d, party, it)
           tx == Taxable(dc_lines[i].row.qty, rd[1], 0)
       IN tx * 100 + tx * it.gst_percent + Projected_NoDiscount(d, party, dc_lines, i + 1)

RECURSIVE Projected(_, _, _, _)
\* projected_sub * 100 + projected_gst of invoice_create, in 1/10000 paise
Projected(d, party, dc_lines, i) ==
  IF i > Len(dc_lines) THEN 0
  ELSE LET it == Item(dc_lines[i].row.item_id)
           rd == apply_party_price(d, party, it)
           tx == Taxable(dc_lines[i].row.qty, rd[1], rd[2])
       IN tx * 100 + tx * it.gst_percent + Projected(d, party, dc_lines, i + 1)

RECURSIVE InvoiceLines_ListPrice(_, _, _, _, _)
\* mutant of InvoiceLines: the item's list price, no party price
InvoiceLines_ListPrice(d, party, inv_id, dc_lines, i) ==
  IF i > Len(dc_lines) THEN <<>>
  ELSE LET it == Item(dc_lines[i].row.item_id)
       IN <<[invoice_id |-> inv_id, item_id |-> it.id, qty |-> dc_lines[i].row.qty,
             rate |-> it.sale_price, gst_percent |-> it.gst_percent, discount_percent |-> 0]>>
          \o InvoiceLines_ListPrice(d, party, inv_id, dc_lines, i + 1)

RECURSIVE InvoiceLines_FromOrder(_, _, _, _, _)
\* mutant of InvoiceLines: rate and discount are those captured on the
\* order's line of the same item
InvoiceLines_FromOrder(d, party, inv_id, dc_lines, i) ==
  IF i > Len(dc_lines) THEN <<>>
  ELSE LET it == Item(dc_lines[i].row.item_id)
           so_id == d.challans[dc_lines[i].row.dc_id].so_id
           sol == CHOOSE j \in DOMAIN d.soLines :
                    d.soLines[j].so_id = so_id /\ d.soLines[j].item_id = it.id
       IN <<[invoice_id |-> inv_id, item_id |-> it.id, qty |-> dc_lines[i].row.qty,
             rate |-> d.soLines[sol].rate, gst_percent |-> it.gst_percent,
             discount_percent |-> d.soLines[sol].discount_percent]>>
          \o InvoiceLines_FromOrder(d, party, inv_id, dc_lines, i + 1)

RECURSIVE InvoiceLines(_, _, _, _, _)
\* the InvoiceLine rows invoice_create copies from the challan's lines
InvoiceLines(d, party, inv_id, dc_lines, i) ==
  IF i > Len(dc_lines) THEN <<>>
  ELSE LET it == Item(dc_lines[i].row.item_id)
           rd == apply_party_price(d, party, it)
       IN <<[invoice_id |-> inv_id, item_id |-> it.id, qty |-> dc_lines[i].row.qty,
             rate |-> rd[1], gst_percent |-> it.gst_percent, discount_percent |-> rd[2]]>>
          \o InvoiceLines(d, party, inv_id, dc_lines, i + 1)

\* mutant of CopyLines: the lines are taken out of stock once more
CopyLines_Dispatch(s, party, inv_id, dc_id, dc_lines) ==
  [s EXCEPT !.work.invLines = @ \o InvoiceLines(s.work, party, inv_id, dc_lines, 1),
            !.work.challans[dc_id].status = "INVOICED",
            !.work.stock = [k \in DOMAIN @ |->
               IF @[k] = <<>> THEN @[k] ELSE [@[k] EXCEPT ![1] = @ - Len(dc_lines)]]]

\* the InvoiceLine rows and dc.status = "INVOICED", pending in the session
CopyLines(s, party, inv_id, dc_id, dc_lines) ==
  [s EXCEPT !.work.invLines = @ \o InvoiceLines(s.work, party, inv_id, dc_lines, 1),
            !.work.challans[dc_id].status = "INVOICED"]

\* mutant of ChallanNotOpen: only a missing challan is turned away
ChallanNotOpen_Missing(d, dc_id) == StatusOf(d.challans, dc_id) = "None"

\* `not dc or dc.status != "OPEN"`
ChallanNotOpen(d, dc_id) == StatusOf(d.challans, dc_id) # "OPEN"

\* mutant of CreditControl: the credit limit is tested before the overdue balance
CreditControl_LimitFirst(d, party, dc_lines) ==
  LET summary == calc_party_summary(d, party)
      limit == d.parties[party].credit_limit
      projected_total == Projected(d, party, dc_lines, 1)
  IN IF d.parties[party].is_blocked THEN [msg |-> "Party is BLOCKED", detail |-> <<>>]
     ELSE IF limit # 0 /\ summary.outstanding * 10000 + projected_total > limit * 10000
          THEN [msg |-> "Credit limit exceeded",
                detail |-> <<limit, summary.outstanding, Round(projected_total, 10000)>>]
     ELSE IF summary.overdue > 0 THEN [msg |-> "Overdue pending", detail |-> <<summary.overdue>>]
     ELSE [msg |-> "ok", detail |-> <<>>]

\* mutant of CreditControl: the new invoice alone is held against the limit
CreditControl_NewOnly(d, party, dc_lines) ==
  LET summary == calc_party_summary(d, party)
      limit == d.parties[party].credit_limit
      projected_total == Projected(d, party, dc_lines, 1)
  IN IF d.parties[party].is_blocked THEN [msg |-> "Party is BLOCKED", detail |-> <<>>]
     ELSE IF summary.overdue > 0 THEN [msg |-> "Overdue pending", detail |-> <<summary.overdue>>]
     ELSE IF limit # 0 /\ projected_total > limit * 10000
          THEN [msg |-> "Credit limit exceeded",
                detail |-> <<limit, summary.outstanding, Round(projected_total, 10000)>>]
     ELSE [msg |-> "ok", detail |-> <<>>]

\* the credit control of invoice_create: msg is "ok" or the reason of the 400,
\* detail the amounts the message reports (in paise)
CreditControl(d, party, dc_lines) ==
  LET summary == calc_party_summary(d, party)
      limit == d.parties[party].credit_limit
      projected_total == Projected(d, party, dc_lines, 1)
  IN IF d.parties[party].is_blocked THEN [msg |-> "Party is BLOCKED", detail |-> <<>>]
     ELSE IF summary.overdue > 0 THEN [msg |-> "Overdue pending", detail |-> <<summary.overdue>>]
     ELSE IF limit # 0 /\ summary.outstanding * 10000 + projected_total > limit * 10000
          THEN [msg |-> "Credit limit exceeded",
                detail |-> <<limit, summary.outstanding, Round(projected_total, 10000)>>]
     ELSE [msg |-> "ok", detail |-> <<>>]

\* POST /invoices/create
invoice_create(dc_id, invoice_date) ==
  \/ /\ ChallanNotOpen(db, dc_id)
     /\ last' = Resp("invoice_create", dc_id, 400, "Challan not available")
     /\ UNCHANGED db
  \/ /\ ~ChallanNotOpen(db, dc_id)
     /\ dc_id \in DOMAIN db.challans
     /\ LET so == db.orders[db.challans[dc_id].so_id]
            party == so.party_id
            dc_lines == SelectWhere(db.dcLines, "dc_id", dc_id)
            cc == CreditControl(db, party, dc_lines)
            inv_id == Len(db.invoices) + 1
            invoice_no == next_no("INV", db, now)
            s1 == Commit([Begin(db) EXCEPT
                    !.work.invoices = Append(@,
                      [dc_id |-> dc_id, party_id |-> party, warehouse_id |-> so.warehouse_id,
                       invoice_date |-> invoice_date,
                       place_of_supply_state |-> db.parties[party].state, status |-> "OPEN"]),
                    !.work.invoice_no = Append(@, invoice_no)])
            s2 == Commit(CopyLines(s1, party, inv_id, dc_id, dc_lines))
        IN IF cc.msg # "ok"
           THEN /\ last' = Resp("invoice_create", dc_id, 400, cc.msg) @@ [detail |-> cc.detail]
                /\ UNCHANGED db
           ELSE IF Duplicate(db.invoice_no, invoice_no)
           THEN /\ last' = Resp("invoice_create", dc_id, 500, "IntegrityError")
                /\ UNCHANGED db
           ELSE /\ Len(db.invoices) < MaxInvoices
                /\ db' = s2.com
                /\ last' = Resp("invoice_create", dc_id, 303, "ok")

\* mutant of add_payment: a payment above the invoice's balance is turned away
add_payment_Checked(inv_id, amount) ==
  \/ /\ inv_id \notin DOMAIN db.invoices
     /\ last' = Resp("add_payment", inv_id, 404, "Invoice not found")
     /\ UNCHANGED db
  \/ /\ inv_id \in DOMAIN db.invoices
     /\ amount > invoice_totals(db, inv_id).balance
     /\ last' = Resp("add_payment", inv_id, 400, "Amount exceeds balance")
     /\ UNCHANGED db
  \/ /\ inv_id \in DOMAIN db.invoices
     /\ amount <= invoice_totals(db, inv_id).balance
     /\ Len(db.payments) < MaxPayments
     /\ db' = [db EXCEPT !.payments = Append(@,
                 [party_id |-> db.invoices[inv_id].party_id, invoice_id |-> inv_id, amount |-> amount])]
     /\ last' = Resp("add_payment", inv_id, 303, "ok")

\* POST /payments/add
add_payment(inv_id, amount) ==
  \/ /\ inv_id \notin DOMAIN db.invoices
     /\ last' = Resp("add_payment", inv_id, 404, "Invoice not found")
     /\ UNCHANGED db
  \/ /\ inv_id \in DOMAIN db.invoices
     /\ Len(db.payments) < MaxPayments
     /\ db' = [db EXCEPT !.payments = Append(@,
                 [party_id |-> db.invoices[inv_id].party_id, invoice_id |-> inv_id, amount |-> amount])]
     /\ last' = Resp("add_payment", inv_id, 303, "ok")

\* GET /invoices/{inv_id}: the page shows invoice_totals of the invoice
invoice_view(inv_id) ==
  /\ \/ /\ inv_id \notin DOMAIN db.invoices
        /\ last' = Resp("invoice_view", inv_id, 404, "Invoice not found")
     \/ /\ inv_id \in DOMAIN db.invoices
        /\ last' = Resp("invoice_view", inv_id, 200, "ok") @@ [totals |-> invoice_totals(db, inv_id)]
  /\ UNCHANGED db

RECURSIVE StatementSum(_, _, _, _, _)
\* the loop of statements_view over the party's invoices, fd and td being the
\* date filters (0 when the field is empty)
StatementSum(d, terms, fd, td, invs) ==
  IF invs = <<>> THEN <<0, 0>>
  ELSE LET iv == Head(invs)
           rest == StatementSum(d, terms, fd, td, Tail(invs))
           bal == invoice_totals(d, iv.id).balance
       IN IF (fd # 0 /\ iv.row.invoice_date < fd) \/ (td # 0 /\ iv.row.invoice_date > td) THEN rest
          ELSE IF bal > 0
          THEN <<rest[1] + bal,
                 rest[2] + (IF terms > 0 /\ Today > iv.row.invoice_date + terms THEN bal ELSE 0)>>
          ELSE rest

\* GET /statements/view
statements_view(party_id, fd, td) ==
  /\ \/ /\ party_id \notin DOMAIN db.parties
        /\ last' = Resp("statements_view", party_id, 404, "Party not found")
     \/ /\ party_id \in DOMAIN db.parties
        /\ LET r == StatementSum(db, db.parties[party_id].payment_terms_days, fd, td,
                                 SelectWhere(db.invoices, "party_id", party_id))
           IN last' = Resp("statements_view", party_id, 200, "ok")
                        @@ [summary |-> [outstanding |-> r[1], overdue |-> r[2]]]
  /\ UNCHANGED db

\* POST /parties/create
parties_create(state, credit_limit, terms) ==
  /\ Len(db.parties) < MaxParties
  /\ db' = [db EXCEPT !.parties = Append(@, NewParty(state, credit_limit, terms))]
  /\ last' = Resp("parties_create", 0, 303, "ok")

\* ------------------------------------------------------------ returns
\* POST /returns/create
returns_create(party, wh) ==
  /\ Len(db.returns) < MaxDocs
  /\ LET rn_no == next_no("RN", db, now)
     IN IF Duplicate(db.rn_no, rn_no)
        THEN /\ last' = Resp("returns_create", 0, 500, "IntegrityError")
             /\ UNCHANGED db
        ELSE /\ db' = [db EXCEPT
                        !.returns = Append(@, [party_id |-> party, warehouse_id |-> wh, status |-> "OPEN"]),
                        !.rn_no = Append(@, rn_no)]
             /\ last' = Resp("returns_create", Len(db.returns) + 1, 303, "ok")

\* mutant of returns_add_line: only a missing note is turned away
returns_add_line_AnyStatus(rn_id, it, qty) ==
  \/ /\ StatusOf(db.returns, rn_id) = "None"
     /\ last' = Resp("returns_add_line", rn_id, 400, "Return note not open")
     /\ UNCHANGED db
  \/ /\ StatusOf(db.returns, rn_id) # "None"
     /\ Len(db.retLines) < MaxRetLines
     /\ db' = [db EXCEPT !.retLines = Append(@, [return_id |-> rn_id, item_id |-> it, qty |-> qty])]
     /\ last' = Resp("returns_add_line", rn_id, 303, "ok")

\* POST /returns/{rn_id}/add-line
returns_add_line(rn_id, it, qty) ==
  \/ /\ StatusOf(db.returns, rn_id) # "OPEN"
     /\ last' = Resp("returns_add_line", rn_id, 400, "Return note not open")
     /\ UNCHANGED db
  \/ /\ StatusOf(db.returns, rn_id) = "OPEN"
     /\ Len(db.retLines) < MaxRetLines
     /\ db' = [db EXCEPT !.retLines = Append(@, [return_id |-> rn_id, item_id |-> it, qty |-> qty])]
     /\ last' = Resp("returns_add_line", rn_id, 303, "ok")

RECURSIVE PostLines_Twice(_, _, _)
\* mutant of PostLines: every line is added to stock twice
PostLines_Twice(s, wh, lns) ==
  IF lns = <<>> THEN s
  ELSE LET ln == Head(lns).row
           s1 == get_stock(s, wh, ln.item_id)
           q == StockQty(s1.work.stock, wh, ln.item_id)
       IN PostLines_Twice([s1 EXCEPT !.work.stock = SetStockQty(@, wh, ln.item_id, q + 2 * ln.qty)], wh, Tail(lns))

RECURSIVE PostLines(_, _, _)
\* the loop of returns_post over the note's lines
PostLines(s, wh, lns) ==
  IF lns = <<>> THEN s
  ELSE LET ln == Head(lns).row
           s1 == get_stock(s, wh, ln.item_id)
           q == StockQty(s1.work.stock, wh, ln.item_id)
       IN PostLines([s1 EXCEPT !.work.stock = SetStockQty(@, wh, ln.item_id, q + ln.qty)], wh, Tail(lns))

\* POST /returns/{rn_id}/post
returns_post(rn_id) ==
  \/ /\ StatusOf(db.returns, rn_id) # "OPEN"
     /\ last' = Resp("returns_post", rn_id, 400, "Return note not open")
     /\ UNCHANGED db
  \/ /\ StatusOf(db.returns, rn_id) = "OPEN"
     /\ LET s1 == PostLines(Begin(db), db.returns[rn_id].warehouse_id, SelectWhere(db.retLines, "return_id", rn_id))
        IN /\ \A k \in DOMAIN s1.work.stock : \A i \in DOMAIN s1.work.stock[k] : s1.work.stock[k][i] <= MaxStock
           /\ db' = Commit([s1 EXCEPT !.work.returns[rn_id].status = "POSTED"]).com
     /\ last' = Resp("returns_post", rn_id, 303, "ok")

\* ------------------------------------------------------------ login
\* The cookie "token" of a request: absent, or a JWT whose signature and
\* expiry decode_token accepts or not, carrying the role of the user that
\* logged in.
Roles == {"ADMIN", "WAREHOUSE", "BILLING", "ACCOUNTS"}

Tokens ==
  {[cookie |-> FALSE, valid |-> FALSE, role |-> "None"], [cookie |-> TRUE, valid |-> FALSE, role |-> "ADMIN"]}
    \cup {[cookie |-> TRUE, valid |-> TRUE, role |-> r] : r \in Roles}

\* auth.require_roles(*roles) as the dependency of a route: the HTTPException
\* it raises, or 200 when it returns the token's data
require_roles(roles, token) ==
  IF ~token.cookie THEN [code |-> 401, msg |-> "Login required"]
  ELSE IF ~token.valid THEN [code |-> 401, msg |-> "Invalid login"]
  ELSE IF roles # {} /\ token.role \notin roles THEN [code |-> 403, msg |-> "Not allowed"]
  ELSE [code |-> 200, msg |-> "ok"]

\* u=Depends(require_roles(...)) of each route
RolesOf(op) ==
  CASE op = "parties_create" -> {"ADMIN", "BILLING"}
    [] op = "stock_adjust" -> {"ADMIN", "WAREHOUSE"}
    [] op = "so_create" -> {"ADMIN", "BILLING"}
    [] op = "so_approve" -> {"ADMIN", "BILLING"}
    [] op = "challan_create" -> {"ADMIN", "WAREHOUSE"}
    [] op = "invoice_create" -> {"ADMIN", "BILLING"}
    [] op = "add_payment" -> {"ADMIN", "ACCOUNTS"}
    [] op = "statements_view" -> {"ADMIN", "ACCOUNTS", "BILLING"}
    [] op = "returns_create" -> {"ADMIN", "WAREHOUSE", "BILLING"}
    [] op = "returns_post" -> {"ADMIN", "WAREHOUSE"}

\* a route: FastAPI resolves the dependency first and calls the handler only
\* when the dependency raised nothing
Route(op, token, Handler) ==
  LET g == require_roles(RolesOf(op), token)
  IN \/ /\ g.code # 200
        /\ last' = Resp(op, 0, g.code, g.msg)
        /\ UNCHANGED db
     \/ /\ g.code = 200
        /\ Handler

\* a request for the route op with the cookie token
Request(op, token) ==
  \/ /\ op = "parties_create"
     /\ Route(op, token, parties_create("", 0, 0))
  \/ /\ op = "stock_adjust"
     /\ \E wh \in Warehouses, d \in {0 - MaxStock, MaxStock} : Route(op, token, stock_adjust(wh, 1, d))
  \/ /\ op = "so_create"
     /\ \E p \in Parties, wh \in Warehouses :
          Route(op, token, Len(db.orders) < MaxOrders /\ so_create(p, wh))
  \/ /\ op = "so_approve"
     /\ \E so \in 1..MaxOrders : Route(op, token, so_approve(so))
  \/ /\ op = "challan_create"
     /\ \E so \in 1..MaxOrders : Route(op, token, challan_create(so))
  \/ /\ op = "invoice_create"
     /\ \E dc \in 1..MaxChallans : Route(op, token, invoice_create(dc, Today))
  \/ /\ op = "add_payment"
     /\ \E inv \in 1..MaxInvoices : Route(op, token, add_payment(inv, 5000))
  \/ /\ op = "statements_view"
     /\ \E p \in 1..MaxParties : Route(op, token, statements_view(p, 0, 0))
  \/ /\ op = "returns_create"
     /\ \E p \in Parties, wh \in Warehouses :
          Route(op, token, Len(db.returns) < MaxReturns /\ returns_create(p, wh))
  \/ /\ op = "returns_post"
     /\ \E rn \in 1..MaxReturns : Route(op, token, returns_post(rn))

\* ------------------------------------------------------------ v1 (app.py)
\* The first version of the application: invoices are written by hand, line
\* by line, each line taken out of stock, and the status of an invoice is
\* derived again after every line and every payment.
RECURSIVE SumLinesV1(_, _)
\* <<sum of line_amount in paise, sum of gst in 1/100 paise>> over lines
SumLinesV1(lns, i) ==
  IF i > Len(lns) THEN <<0, 0>>
  ELSE LET line_amount == lns[i].row.qty * lns[i].row.rate
           rest == SumLinesV1(lns, i + 1)
       IN <<rest[1] + line_amount, rest[2] + line_amount * lns[i].row.gst_percent>>

\* app.invoice_totals, every value in paise
invoice_totals_v1(d, invoice_id) ==
  LET s == SumLinesV1(SelectWhere(d.invLines, "invoice_id", invoice_id), 1)
      total == s[1] * 100 + s[2]
      paid_amt == SumAmount(SelectWhere(d.payments, "invoice_id", invoice_id), 1)
  IN [subtotal |-> s[1],
      gst |-> Round(s[2], 100),
      total |-> Round(total, 100),
      paid |-> paid_amt,
      balance |-> Round(total - paid_amt * 100, 100)]

\* app.update_invoice_status
update_invoice_status(s, invoice_id) ==
  IF invoice_id \notin DOMAIN s.work.invoices THEN s
  ELSE Commit([s EXCEPT !.work.invoices[invoice_id].status =
                 DerivedStatus(invoice_totals_v1(s.work, invoice_id))])

\* POST /invoices/create (app.py)
invoices_create(party, wh, invoice_date) ==
  /\ Len(db.invoices) < MaxDocs
  /\ LET inv_no == next_no("INV", db, now)
     IN IF Duplicate(db.invoice_no, inv_no)
        THEN /\ last' = Resp("invoices_create", 0, 500, "IntegrityError")
             /\ UNCHANGED db
        ELSE /\ db' = [db EXCEPT
                        !.invoices = Append(@, [party_id |-> party, warehouse_id |-> wh,
                                                invoice_date |-> invoice_date, status |-> "OPEN"]),
                        !.invoice_no = Append(@, inv_no)]
             /\ last' = Resp("invoices_create", Len(db.invoices) + 1, 303, "ok")

\* POST /invoices/{invoice_id}/add_line (app.py)
invoice_add_line(invoice_id, it, qty, rate, gst_percent) ==
  \/ /\ invoice_id \notin DOMAIN db.invoices
     /\ last' = Resp("invoice_add_line", invoice_id, 404, "Invoice not found")
     /\ UNCHANGED db
  \/ /\ invoice_id \in DOMAIN db.invoices
     /\ LET wh == db.invoices[invoice_id].warehouse_id
            s1 == get_stock(Begin(db), wh, it)
            q == StockQty(s1.work.stock, wh, it)
            s2 == Commit([s1 EXCEPT !.work.stock = SetStockQty(@, wh, it, q - qty),
                                    !.work.invLines = Append(@,
                                       [invoice_id |-> invoice_id, item_id |-> it, qty |-> qty,
                                        rate |-> rate, gst_percent |-> gst_percent])])
        IN \/ /\ q < qty
              /\ db' = Rollback(s1)
              /\ last' = Resp("invoice_add_line", invoice_id, 400, "Insufficient stock")
           \/ /\ q >= qty
              /\ q - qty <= MaxStock
              /\ Len(db.invLines) < MaxLinesV1
              /\ db' = update_invoice_status(s2, invoice_id).com
              /\ last' = Resp("invoice_add_line", invoice_id, 303, "ok")

\* POST /payments/create (app.py)
payments_create(party, invoice_id, amount) ==
  /\ Len(db.payments) < MaxPaymentsV1
  /\ LET s1 == Commit([Begin(db) EXCEPT !.work.payments = Append(@,
                  [party_id |-> party, invoice_id |-> invoice_id, amount |-> amount])])
     IN db' = update_invoice_status(s1, invoice_id).com
  /\ last' = Resp("payments_create", invoice_id, 303, "ok")

\* POST /returns/create (app.py): a ReturnNote has no number and no status
returns_create_v1(party, wh) ==
  /\ Len(db.returns) < MaxDocs
  /\ db' = [db EXCEPT !.returns = Append(@, [party_id |-> party, warehouse_id |-> wh])]
  /\ last' = Resp("returns_create", Len(db.returns) + 1, 303, "ok")

\* POST /returns/{return_id}/add_line (app.py): the line is added to stock
\* at once
return_add_line(return_id, it, qty) ==
  \/ /\ return_id \notin DOMAIN db.returns
     /\ last' = Resp("return_add_line", return_id, 404, "Return not found")
     /\ UNCHANGED db
  \/ /\ return_id \in DOMAIN db.returns
     /\ Len(db.retLines) < MaxRetLines
     /\ LET wh == db.returns[return_id].warehouse_id
            s1 == get_stock(Begin(db), wh, it)
            q == StockQty(s1.work.stock, wh, it)
        IN /\ q + qty <= MaxStock
           /\ db' = Commit([s1 EXCEPT !.work.stock = SetStockQty(@, wh, it, q + qty),
                                      !.work.retLines = Append(@,
                                         [return_id |-> return_id, item_id |-> it, qty |-> qty])]).com
     /\ last' = Resp("return_add_line", return_id, 303, "ok")

\* ------------------------------------------------------------ requests in flight
\* FastAPI runs each `def` handler in a worker thread, so the handlers of two
\* requests interleave between their database round trips.  No handler takes
\* a row lock (no with_for_update, no version column): a SELECT sees what is
\* committed at that moment, and the flush at commit writes the values the
\* session holds (UPDATE stock SET qty = <st.qty> WHERE id = <st.id>).
\* A request in flight: its handler and argument, where the handler stands,
\* the writes its session holds back until commit, and its response code.
Reqs == 1..NumReqs

NewReq(op, arg) ==
  [op |-> op, arg |-> arg, pc |-> "start", code |-> 0,
   dc_id |-> 0, inv_id |-> 0, row |-> 0, writes |-> <<>>, lines |-> <<>>, no |-> <<>>]

Done(q, code) == [q EXCEPT !.pc = "done", !.code = code, !.writes = <<>>, !.lines = <<>>]

\* the Stock rows whose qty the session changed since it last committed,
\* with the qty it holds for each
PendingQty(s) ==
  [k \in {k \in DOMAIN s.work.stock : s.work.stock[k] # s.com.stock[k]} |-> s.work.stock[k][1]]

\* the flush of the held Stock writes onto the committed table
FlushQty(stock, writes) ==
  [k \in DOMAIN stock |-> IF k \in DOMAIN writes THEN [stock[k] EXCEPT ![1] = writes[k]] ELSE stock[k]]

\* stock_adjust up to its commit: get_stock, st.qty += delta, the test
AdjustRead(r) ==
  /\ req.r[r].op = "stock_adjust" /\ req.r[r].pc = "start"
  /\ LET s1 == get_stock(Begin(db), 1, 1)
         q == StockQty(s1.work.stock, 1, 1) + req.r[r].arg
     IN /\ db' = s1.com
        /\ \/ /\ q < 0
              /\ req' = [req EXCEPT !.r[r] = Done(@, 400)]
           \/ /\ q >= 0
              /\ req' = [req EXCEPT !.r[r].pc = "commit", !.r[r].writes = (<<1, 1>> :> q)]
  /\ UNCHANGED <<last, now>>

\* challan_create up to the commit of its Challan row
ChallanStart(r) ==
  /\ req.r[r].op = "challan_create" /\ req.r[r].pc = "start"
  /\ \/ /\ SoNotApproved(db, req.r[r].arg)
        /\ req' = [req EXCEPT !.r[r] = Done(@, 400)]
        /\ UNCHANGED db
     \/ /\ ~SoNotApproved(db, req.r[r].arg)
        /\ db' = [db EXCEPT !.challans = Append(@, [so_id |-> req.r[r].arg, status |-> "OPEN"]),
                             !.dc_no = Append(@, next_no("DC", db, now))]
        /\ req' = [req EXCEPT !.r[r].pc = "lines", !.r[r].dc_id = Len(db.challans) + 1]
  /\ UNCHANGED <<last, now>>

\* the loop of challan_create over the order's lines, up to the last commit
ChallanLines(r) ==
  /\ req.r[r].pc = "lines"
  /\ LET so_id == req.r[r].arg
         res == DispatchLines(Begin(db), db.orders[so_id].warehouse_id, req.r[r].dc_id,
                              SelectWhere(db.soLines, "so_id", so_id))
     IN /\ db' = res.s.com
        /\ \/ /\ ~res.ok
              /\ req' = [req EXCEPT !.r[r] = Done(@, 400)]
           \/ /\ res.ok
              /\ req' = [req EXCEPT !.r[r].pc = "commit",
                                    !.r[r].writes = PendingQty(res.s),
                                    !.r[r].lines = SubSeq(res.s.work.dcLines, Len(db.dcLines) + 1, Len(res.s.work.dcLines))]
  /\ UNCHANGED <<last, now>>

\* the last commit of either handler: the held writes reach the database
RequestCommit(r) ==
  /\ req.r[r].pc = "commit"
  /\ LET d1 == [db EXCEPT !.stock = FlushQty(@, req.r[r].writes), !.dcLines = @ \o req.r[r].lines]
     IN db' = IF req.r[r].op = "challan_create"
              THEN [d1 EXCEPT !.orders[req.r[r].arg].status = "DISPATCHED"]
              ELSE d1
  /\ req' = [req EXCEPT !.r[r] = Done(@, 303)]
  /\ UNCHANGED <<last, now>>

\* the prefix a creation request numbers its document with
PrefixOf(op) ==
  CASE op = "so_create" -> "SO"
    [] op = "challan_create" -> "DC"
    [] op = "invoice_create" -> "INV"
    [] op = "returns_create" -> "RN"

\* mutant of ReadNumber: a request waits while another one of its document
\* type holds a number it has not yet persisted
ReadNumber_Serialized(r) ==
  /\ req.r[r].op \in {"so_create", "returns_create"} /\ req.r[r].pc = "start"
  /\ \A o \in Reqs \ {r} : ~(req.r[o].op = req.r[r].op /\ req.r[o].pc = "insert")
  /\ req' = [req EXCEPT !.r[r].pc = "insert", !.r[r].no = next_no(PrefixOf(req.r[r].op), db, now)]
  /\ UNCHANGED <<db, last, now>>

\* so_create and returns_create up to the construction of the row: next_no
\* reads the number column in the request's own Session
ReadNumber(r) ==
  /\ req.r[r].op \in {"so_create", "returns_create"} /\ req.r[r].pc = "start"
  /\ req' = [req EXCEPT !.r[r].pc = "insert", !.r[r].no = next_no(PrefixOf(req.r[r].op), db, now)]
  /\ UNCHANGED <<db, last, now>>

\* s.add(row); s.commit(): the INSERT, which the unique index of the number
\* column turns down with IntegrityError (500)
InsertDocument(r) ==
  /\ req.r[r].pc = "insert"
  /\ LET prefix == PrefixOf(req.r[r].op)
         row == [party_id |-> req.r[r].arg, warehouse_id |-> 1, status |-> "OPEN"]
     IN IF Duplicate(Existing(db, prefix), req.r[r].no)
        THEN /\ req' = [req EXCEPT !.r[r] = Done(@, 500)]
             /\ UNCHANGED db
        ELSE /\ db' = IF prefix = "SO"
                      THEN [db EXCEPT !.orders = Append(@, row), !.so_no = Append(@, req.r[r].no)]
                      ELSE [db EXCEPT !.returns = Append(@, row), !.rn_no = Append(@, req.r[r].no)]
             /\ req' = [req EXCEPT !.r[r] = Done(@, 303)]
  /\ UNCHANGED <<last, now>>

\* invoice_create up to the credit control: the challan, its order and party
\* are read in the request's own Session and the tests are made on what was
\* read
InvoiceCheck(r) ==
  /\ req.r[r].op = "invoice_create" /\ req.r[r].pc = "start"
  /\ LET dc_id == req.r[r].arg
     IN IF ChallanNotOpen(db, dc_id)
        THEN req' = [req EXCEPT !.r[r] = Done(@, 400)]
        ELSE LET party == db.orders[db.challans[dc_id].so_id].party_id
                 cc == CreditControl(db, party, SelectWhere(db.dcLines, "dc_id", dc_id))
             IN IF cc.msg # "ok"
                THEN req' = [req EXCEPT !.r[r] = Done(@, 400)]
                ELSE req' = [req EXCEPT !.r[r].pc = "number", !.r[r].dc_id = dc_id]
  /\ UNCHANGED <<db, last, now>>

\* invoice_no=next_no("INV", s): the number is read while the Invoice is built
InvoiceNumber(r) ==
  /\ req.r[r].op = "invoice_create" /\ req.r[r].pc = "number"
  /\ req' = [req EXCEPT !.r[r].pc = "header", !.r[r].no = next_no("INV", db, now)]
  /\ UNCHANGED <<db, last, now>>

\* s.add(inv); s.commit(); s.refresh(inv): the Invoice row is committed, or
\* the unique index of invoice_no turns it down with IntegrityError (500)
InvoiceInsert(r) ==
  /\ req.r[r].op = "invoice_create" /\ req.r[r].pc = "header"
  /\ LET dc_id == req.r[r].dc_id
         so == db.orders[db.challans[dc_id].so_id]
     IN IF Duplicate(db.invoice_no, req.r[r].no)
        THEN /\ req' = [req EXCEPT !.r[r] = Done(@, 500)]
             /\ UNCHANGED db
        ELSE /\ db' = [db EXCEPT
                         !.invoices = Append(@,
                           [dc_id |-> dc_id, party_id |-> so.party_id, warehouse_id |-> so.warehouse_id,
                            invoice_date |-> Today,
                            place_of_supply_state |-> db.parties[so.party_id].state, status |-> "OPEN"]),
                         !.invoice_no = Append(@, req.r[r].no)]
             /\ req' = [req EXCEPT !.r[r].pc = "copy", !.r[r].inv_id = Len(db.invoices) + 1]
  /\ UNCHANGED <<last, now>>

\* the copy of the challan's lines, dc.status = "INVOICED" and the last commit
InvoiceCopy(r) ==
  /\ req.r[r].op = "invoice_create" /\ req.r[r].pc = "copy"
  /\ LET dc_id == req.r[r].dc_id
         party == db.invoices[req.r[r].inv_id].party_id
     IN db' = Commit(CopyLines(Begin(db), party, req.r[r].inv_id, dc_id,
                               SelectWhere(db.dcLines, "dc_id", dc_id))).com
  /\ req' = [req EXCEPT !.r[r] = Done(@, 303)]
  /\ UNCHANGED <<last, now>>

\* get_stock as stock_adjust calls it, one database round trip at a time.
\* The SELECT ... .first() of the pair (warehouse 1, item arg[1]): the first
\* row and the qty read from it, or no row
GetStockSelect(r) ==
  /\ req.r[r].op = "stock_adjust" /\ req.r[r].pc = "start"
  /\ LET k == <<1, req.r[r].arg[1]>>
     IN IF db.stock[k] # <<>>
        THEN req' = [req EXCEPT !.r[r].pc = "adjust", !.r[r].row = 1, !.r[r].writes = (k :> db.stock[k][1])]
        ELSE req' = [req EXCEPT !.r[r].pc = "insert"]
  /\ UNCHANGED <<db, last, now>>

\* `if not st`: session.add(Stock(qty=0)); session.commit(); session.refresh(st)
\* -- the INSERT of a row of the pair; the Stock table has no unique index
GetStockInsert(r) ==
  /\ req.r[r].op = "stock_adjust" /\ req.r[r].pc = "insert"
  /\ LET k == <<1, req.r[r].arg[1]>>
     IN /\ db' = [db EXCEPT !.stock[k] = Append(@, 0)]
        /\ req' = [req EXCEPT !.r[r].pc = "adjust", !.r[r].row = Len(db.stock[k]) + 1,
                              !.r[r].writes = (k :> 0)]
  /\ UNCHANGED <<last, now>>

\* st.qty += delta on the row get_stock returned, the test, and the commit
\* (UPDATE stock SET qty = <st.qty> WHERE id = <st.id>)
AdjustRow(r) ==
  /\ req.r[r].op = "stock_adjust" /\ req.r[r].pc = "adjust"
  /\ LET k == <<1, req.r[r].arg[1]>>
         q == req.r[r].writes[k] + req.r[r].arg[2]
     IN IF q < 0
        THEN /\ req' = [req EXCEPT !.r[r] = Done(@, 400)]
             /\ UNCHANGED db
        ELSE /\ db' = [db EXCEPT !.stock[k][req.r[r].row] = q]
             /\ req' = [req EXCEPT !.r[r] = Done(@, 303)]
  /\ UNCHANGED <<last, now>>

\* challan_create up to its test of the order, one round trip at a time
ChallanCheck(r) ==
  /\ req.r[r].op = "challan_create" /\ req.r[r].pc = "start"
  /\ IF SoNotApproved(db, req.r[r].arg)
     THEN req' = [req EXCEPT !.r[r] = Done(@, 400)]
     ELSE req' = [req EXCEPT !.r[r].pc = "number"]
  /\ UNCHANGED <<db, last, now>>

\* dc_no=next_no("DC", s): the number is read while the Challan is built
ChallanNumber(r) ==
  /\ req.r[r].op = "challan_create" /\ req.r[r].pc = "number"
  /\ req' = [req EXCEPT !.r[r].pc = "header", !.r[r].no = next_no("DC", db, now)]
  /\ UNCHANGED <<db, last, now>>

\* s.add(dc); s.commit(); s.refresh(dc): the Challan row is committed, or the
\* unique index of dc_no turns it down with IntegrityError (500)
ChallanInsert(r) ==
  /\ req.r[r].op = "challan_create" /\ req.r[r].pc = "header"
  /\ IF Duplicate(db.dc_no, req.r[r].no)
     THEN /\ req' = [req EXCEPT !.r[r] = Done(@, 500)]
          /\ UNCHANGED db
     ELSE /\ db' = [db EXCEPT !.challans = Append(@, [so_id |-> req.r[r].arg, status |-> "OPEN"]),
                              !.dc_no = Append(@, req.r[r].no)]
          /\ req' = [req EXCEPT !.r[r].pc = "lines", !.r[r].dc_id = Len(db.challans) + 1]
  /\ UNCHANGED <<last, now>>

\* ------------------------------------------------------------ specification
EmptyDb ==
  [stock |-> [k \in Warehouses \X Items |-> <<>>],
   orders |-> <<>>, soLines |-> <<>>,
   challans |-> <<>>, dcLines |-> <<>>,
   returns |-> <<>>, retLines |-> <<>>,
   invoices |-> <<>>, invLines |-> <<>>, payments |-> <<>>,
   so_no |-> <<>>, dc_no |-> <<>>, invoice_no |-> <<>>, rn_no |-> <<>>,
   partyPrice |-> [k \in Parties \X Items |-> <<>>],
   parties |-> [p \in Parties |-> NewParty("", 0, 0)]]

NoRequests == [init |-> 0, r |-> <<>>]

Init ==
  /\ db = EmptyDb
  /\ last = Resp("startup", 0, 0, "ok")
  /\ req = NoRequests
  /\ now = FirstMonth

\* the dispatch pipeline: stock ledger, sales orders, challans
Next ==
  \/ \E wh \in Warehouses, it \in Items, d \in Qtys : stock_adjust(wh, it, d) /\ UNCHANGED <<req, now>>
  \/ \E p \in Parties, wh \in Warehouses :
       Len(db.orders) < MaxOrders /\ so_create(p, wh) /\ UNCHANGED <<req, now>>
  \/ \E so \in 1..MaxOrders, it \in Items, q \in Qtys : so_add_line(so, it, q) /\ UNCHANGED <<req, now>>
  \/ \E so \in 1..MaxOrders : so_approve(so) /\ UNCHANGED <<req, now>>
  \/ \E so \in 1..MaxOrders : challan_create(so) /\ UNCHANGED <<req, now>>

Spec == Init /\ [][Next]_vars

\* the whole order-to-cash pipeline, the requests ahead of invoicing drawn
\* from fewer values: one item, quantity 1, stock moved MaxStock at a time
Discounts == {10}
PayAmounts == {5000, 11200}
CreditTerms == {NewParty("", 0, 0), NewParty("Uttar Pradesh", 20000, 30)}

InitInv ==
  /\ \E cfg \in [Parties -> CreditTerms] : db = [EmptyDb EXCEPT !.parties = cfg]
  /\ last = Resp("startup", 0, 0, "ok")
  /\ req = NoRequests
  /\ now = FirstMonth

NextInv ==
  \/ \E wh \in Warehouses, d \in {0 - MaxStock, MaxStock} : stock_adjust(wh, 1, d) /\ UNCHANGED <<req, now>>
  \/ \E p \in Parties, wh \in Warehouses :
       Len(db.orders) < MaxOrders /\ so_create(p, wh) /\ UNCHANGED <<req, now>>
  \/ \E so \in 1..MaxOrders : so_add_line(so, 1, 1) /\ UNCHANGED <<req, now>>
  \/ \E so \in 1..MaxOrders : so_approve(so) /\ UNCHANGED <<req, now>>
  \/ \E so \in 1..MaxOrders : challan_create(so) /\ UNCHANGED <<req, now>>
  \/ \E p \in Parties, d \in Discounts : set_party_price(p, 1, d) /\ UNCHANGED <<req, now>>
  \/ \E dc \in 1..MaxChallans, dt \in InvoiceDates : invoice_create(dc, dt) /\ UNCHANGED <<req, now>>
  \/ \E inv \in 1..MaxInvoices, a \in PayAmounts : add_payment(inv, a) /\ UNCHANGED <<req, now>>

SpecInv == InitInv /\ [][NextInv]_vars

\* the order-to-cash pipeline for the parties credit control tells apart: a
\* limit with payment terms, a negative limit, a limit that two invoices
\* reach exactly, and a blocked party.  No handler writes Party.is_blocked:
\* a blocked party is one the database held when the application started.
CreditConfigs ==
  {NewParty("Uttar Pradesh", 20000, 30),
   NewParty("", 0 - 10000, 0),
   NewParty("", 22400, 0),
   [NewParty("", 10000, 30) EXCEPT !.is_blocked = TRUE]}

InitCredit ==
  /\ \E cfg \in [Parties -> CreditConfigs] : db = [EmptyDb EXCEPT !.parties = cfg]
  /\ last = Resp("startup", 0, 0, "ok")
  /\ req = NoRequests
  /\ now = FirstMonth

SpecCredit == InitCredit /\ [][NextInv]_vars

\* the v1 application: one item at 500.00 without GST, sold or taken back one
\* copy at a time, payments of 200.00, 300.00 and 600.00
QtysV1 == {0 - 1, 1}
RatesV1 == {50000}
PayAmountsV1 == {20000, 30000, 60000}

NextV1 ==
  \/ \E wh \in Warehouses, d \in {0 - MaxStock, MaxStock} : stock_adjust(wh, 1, d) /\ UNCHANGED <<req, now>>
  \/ \E p \in Parties, wh \in Warehouses :
       Len(db.invoices) < MaxInvoices /\ invoices_create(p, wh, Today) /\ UNCHANGED <<req, now>>
  \/ \E inv \in 1..MaxInvoices, q \in QtysV1, r \in RatesV1 :
       invoice_add_line(inv, 1, q, r, 0) /\ UNCHANGED <<req, now>>
  \/ \E p \in Parties, inv \in 1..MaxInvoices, a \in PayAmountsV1 :
       payments_create(p, inv, a) /\ UNCHANGED <<req, now>>

SpecV1 == Init /\ [][NextV1]_vars

\* the pricing resolver as so_add_line calls it: overrides below 0, inside
\* [0,100] and above 100 for both items
PriceDiscounts == {0 - 5, 0, 10, 33, 100, 150}

NextPrice ==
  \/ \E p \in Parties, wh \in Warehouses :
       Len(db.orders) < MaxOrders /\ so_create(p, wh) /\ UNCHANGED <<req, now>>
  \/ \E p \in Parties, it \in Items, d \in PriceDiscounts : set_party_price(p, it, d) /\ UNCHANGED <<req, now>>
  \/ \E so \in 1..MaxOrders, it \in Items : so_add_line(so, it, 1) /\ UNCHANGED <<req, now>>

SpecPrice == Init /\ [][NextPrice]_vars

\* the sequences of at most n elements of S
SeqsUpTo(S, n) == UNION {[1..k -> S] : k \in 0..n}

\* the clock passes into the next month
RECURSIVE MonthAfter(_, _)
MonthAfter(m, k) ==
  IF k = 0 THEN m ELSE MonthAfter(IF m % 100 = 12 THEN m + 89 ELSE m + 1, k - 1)

Months == {MonthAfter(FirstMonth, k) : k \in 0..(MaxMonths - 1)}

Tick ==
  /\ MonthAfter(now, 1) \in Months
  /\ now' = MonthAfter(now, 1)
  /\ UNCHANGED <<db, last, req>>

\* the numbered documents, made one request at a time while the months pass:
\* orders and return notes without a precondition, a challan of an APPROVED
\* order (without lines, so that no stock is needed), an invoice of an OPEN
\* challan
NextNumbering ==
  \/ \E p \in Parties, wh \in Warehouses : so_create(p, wh) /\ UNCHANGED <<req, now>>
  \/ \E so \in 1..MaxDocs : so_approve(so) /\ UNCHANGED <<req, now>>
  \/ \E so \in 1..MaxDocs : challan_create(so) /\ UNCHANGED <<req, now>>
  \/ \E dc \in 1..MaxChallans : invoice_create(dc, Today) /\ UNCHANGED <<req, now>>
  \/ \E p \in Parties, wh \in Warehouses : returns_create(p, wh) /\ UNCHANGED <<req, now>>
  \/ Tick

SpecNumbering == Init /\ [][NextNumbering]_vars

\* NumReqs creation requests, of orders or return notes, in worker threads
\* of their own while the month may pass; the database holds no document or
\* one order of the first month
RaceOps == {[op |-> o, arg |-> 1] : o \in {"so_create", "returns_create"}}

InitRace ==
  /\ \E n \in 0..1, ops \in [Reqs -> RaceOps] :
       /\ db = [EmptyDb EXCEPT
                  !.orders = [i \in 1..n |-> [party_id |-> 1, warehouse_id |-> 1, status |-> "OPEN"]],
                  !.so_no = [i \in 1..n |-> next_no("SO", EmptyDb, FirstMonth)]]
       /\ req = [init |-> n, r |-> [r \in Reqs |-> NewReq(ops[r].op, ops[r].arg)]]
  /\ last = Resp("startup", 0, 0, "ok")
  /\ now = FirstMonth

NextRace ==
  \/ \E r \in Reqs : ReadNumber(r)
  \/ \E r \in Reqs : InsertDocument(r)
  \/ Tick

SpecRace == InitRace /\ [][NextRace]_vars

\* next_no over the number columns a database may hold: up to two numbers
\* of one prefix, of this month or the next, with the sequence numbers 1 and
\* 3, on rows of the prefix's table
Prefixes == {"SO", "DC", "RN", "INV"}

NumberKinds(prefix) ==
  {[head |-> <<prefix, m>>, tail |-> zfill(Str(n), 4)] : m \in Months, n \in {1, 3}}

DistinctSeqs(S, n) == {s \in SeqsUpTo(S, n) : \A i, j \in DOMAIN s : i # j => s[i] # s[j]}

InitNextNo ==
  /\ \E prefix \in {"SO", "RN", "INV"} : \E nos \in DistinctSeqs(NumberKinds(prefix), MaxDocs - 1) :
       db = IF prefix = "SO"
            THEN [EmptyDb EXCEPT
                    !.orders = [i \in DOMAIN nos |-> [party_id |-> 1, warehouse_id |-> 1, status |-> "OPEN"]],
                    !.so_no = nos]
            ELSE IF prefix = "RN"
            THEN [EmptyDb EXCEPT
                    !.returns = [i \in DOMAIN nos |-> [party_id |-> 1, warehouse_id |-> 1, status |-> "OPEN"]],
                    !.rn_no = nos]
            ELSE [EmptyDb EXCEPT
                    !.invoices = [i \in DOMAIN nos |-> [party_id |-> 1, warehouse_id |-> 1,
                                                        invoice_date |-> Today, status |-> "OPEN"]],
                    !.invoice_no = nos]
  /\ last = Resp("startup", 0, 0, "ok")
  /\ req = NoRequests
  /\ now = FirstMonth

NextNextNo ==
  \/ \E p \in Parties, wh \in Warehouses : so_create(p, wh) /\ UNCHANGED <<req, now>>
  \/ \E p \in Parties, wh \in Warehouses : returns_create(p, wh) /\ UNCHANGED <<req, now>>
  \/ \E p \in Parties, wh \in Warehouses : invoices_create(p, wh, Today) /\ UNCHANGED <<req, now>>
  \/ Tick

SpecNextNo == InitNextNo /\ [][NextNextNo]_vars

\* invoice_totals over the invoices a database may hold: two invoices, up to
\* MaxViewLines lines and one payment between them.  A line's rate is what
\* apply_party_price gave for an item of some sale_price (items_create takes
\* any price), so every (rate, gst_percent, discount_percent) is one the
\* pipeline writes.
LineKinds ==
  {[invoice_id |-> inv, item_id |-> 1, qty |-> q, rate |-> k[1], gst_percent |-> k[2], discount_percent |-> k[3]] :
     inv \in 1..2, q \in 1..2, k \in {<<10000, 12, 10>>, <<5000, 0, 0>>, <<3333, 5, 10>>}}

PaymentKinds == {[party_id |-> 1, invoice_id |-> inv, amount |-> 5000] : inv \in 1..2}


InitTotals ==
  /\ \E lns \in SeqsUpTo(LineKinds, MaxViewLines), pays \in SeqsUpTo(PaymentKinds, 1) :
       db = [EmptyDb EXCEPT
               !.invoices = [i \in 1..2 |-> [dc_id |-> i, party_id |-> 1, warehouse_id |-> 1, invoice_date |-> Today,
                                              place_of_supply_state |-> "None", status |-> "OPEN"]],
               !.invoice_no = <<[head |-> <<"INV", FirstMonth>>, tail |-> <<0, 0, 0, 1>>],
                                [head |-> <<"INV", FirstMonth>>, tail |-> <<0, 0, 0, 2>>]>>,
               !.invLines = lns,
               !.payments = pays]
  /\ last = Resp("startup", 0, 0, "ok")
  /\ req = NoRequests
  /\ now = FirstMonth

NextTotals == \E inv \in 1..3 : invoice_view(inv) /\ UNCHANGED <<req, now>>

SpecTotals == InitTotals /\ [][NextTotals]_vars

\* payments of any amount (negative, zero, below and above the total) on the
\* invoices of two parties, each invoice with the lines of InitTotals
AnyAmounts == {0 - 5000, 0, 5000, 30000}

InitPay ==
  /\ \E lns \in SeqsUpTo(LineKinds, MaxViewLines) :
       db = [EmptyDb EXCEPT
               !.parties = [p \in 1..2 |-> NewParty("", 0, 0)],
               !.invoices = [i \in 1..2 |-> [dc_id |-> i, party_id |-> i, warehouse_id |-> 1, invoice_date |-> Today,
                                              place_of_supply_state |-> "None", status |-> "OPEN"]],
               !.invoice_no = <<[head |-> <<"INV", FirstMonth>>, tail |-> <<0, 0, 0, 1>>],
                                [head |-> <<"INV", FirstMonth>>, tail |-> <<0, 0, 0, 2>>]>>,
               !.invLines = lns]
  /\ last = Resp("startup", 0, 0, "ok")
  /\ req = NoRequests
  /\ now = FirstMonth

NextPay ==
  \/ \E inv \in 1..3, a \in AnyAmounts : add_payment(inv, a) /\ UNCHANGED <<req, now>>
  \/ \E inv \in 1..3 : invoice_view(inv) /\ UNCHANGED <<req, now>>

SpecPay == InitPay /\ [][NextPay]_vars

\* the routes behind their role guards, each request with a cookie of its own
GuardedOps ==
  {"parties_create", "stock_adjust", "so_create", "so_approve", "challan_create",
   "invoice_create", "add_payment", "statements_view", "returns_create", "returns_post"}

NextAuth == \E op \in GuardedOps, token \in Tokens : Request(op, token) /\ UNCHANGED <<req, now>>

SpecAuth == Init /\ [][NextAuth]_vars

\* NumReqs requests in flight against one Stock row: each a stock_adjust of
\* that row or a challan_create of the one APPROVED order, whose single line
\* is of that row's item.  The database is one the dispatch pipeline reaches:
\* so_create, so_add_line, so_approve and stock_adjust requests.
ConcOps ==
  {[op |-> "stock_adjust", arg |-> d] : d \in Qtys} \cup {[op |-> "challan_create", arg |-> 1]}

InitConc ==
  /\ \E q0 \in 0..MaxStock, lq \in 1..MaxQty, ops \in [Reqs -> ConcOps] :
       /\ db = [EmptyDb EXCEPT
                  !.stock[<<1, 1>>] = <<q0>>,
                  !.orders = <<[party_id |-> 1, warehouse_id |-> 1, status |-> "APPROVED"]>>,
                  !.so_no = <<next_no("SO", EmptyDb, FirstMonth)>>,
                  !.soLines = <<[so_id |-> 1, item_id |-> 1, qty |-> lq, rate |-> Item(1).sale_price,
                                 gst_percent |-> Item(1).gst_percent, discount_percent |-> 0]>>]
       /\ req = [init |-> q0, r |-> [r \in Reqs |-> NewReq(ops[r].op, ops[r].arg)]]
  /\ last = Resp("startup", 0, 0, "ok")
  /\ now = FirstMonth

NextConc ==
  \/ \E r \in Reqs : AdjustRead(r)
  \/ \E r \in Reqs : ChallanStart(r)
  \/ \E r \in Reqs : ChallanLines(r)
  \/ \E r \in Reqs : RequestCommit(r)

SpecConc == InitConc /\ [][NextConc]_vars

\* the stock ledger with return notes
NextReturns ==
  \/ \E wh \in Warehouses, it \in Items, d \in Qtys : stock_adjust(wh, it, d) /\ UNCHANGED <<req, now>>
  \/ \E p \in Parties, wh \in Warehouses :
       Len(db.returns) < MaxReturns /\ returns_create(p, wh) /\ UNCHANGED <<req, now>>
  \/ \E rn \in 1..MaxReturns, it \in Items, q \in Qtys : returns_add_line(rn, it, q) /\ UNCHANGED <<req, now>>
  \/ \E rn \in 1..MaxReturns : returns_post(rn) /\ UNCHANGED <<req, now>>

SpecReturns == Init /\ [][NextReturns]_vars

\* NumReqs invoice_create requests in worker threads of their own, for the
\* same challan or for two: the database holds one or two dispatched orders
\* of one line, each with its OPEN challan, of a party without a credit limit
\* or with one that a single invoice of one copy fits
InvoiceRaceOps == {[op |-> "invoice_create", arg |-> dc] : dc \in 1..MaxChallans}

InitInvoiceRace ==
  /\ \E n \in 1..MaxChallans, q \in 1..MaxQty, limit \in {0, 12000}, ops \in [Reqs -> InvoiceRaceOps] :
       /\ db = [EmptyDb EXCEPT
                  !.parties = [p \in Parties |-> NewParty("", limit, 0)],
                  !.orders = [i \in 1..n |-> [party_id |-> 1, warehouse_id |-> 1, status |-> "DISPATCHED"]],
                  !.so_no = [i \in 1..n |-> [head |-> <<"SO", FirstMonth>>, tail |-> zfill(Str(i), 4)]],
                  !.soLines = [i \in 1..n |-> [so_id |-> i, item_id |-> 1, qty |-> q, rate |-> Item(1).sale_price,
                                 gst_percent |-> Item(1).gst_percent, discount_percent |-> 0]],
                  !.challans = [i \in 1..n |-> [so_id |-> i, status |-> "OPEN"]],
                  !.dc_no = [i \in 1..n |-> [head |-> <<"DC", FirstMonth>>, tail |-> zfill(Str(i), 4)]],
                  !.dcLines = [i \in 1..n |-> [dc_id |-> i, item_id |-> 1, qty |-> q]]]
       /\ req = [init |-> n, r |-> [r \in Reqs |-> NewReq(ops[r].op, ops[r].arg)]]
  /\ last = Resp("startup", 0, 0, "ok")
  /\ now = FirstMonth

NextInvoiceRace ==
  \/ \E r \in Reqs : InvoiceCheck(r)
  \/ \E r \in Reqs : InvoiceNumber(r)
  \/ \E r \in Reqs : InvoiceInsert(r)
  \/ \E r \in Reqs : InvoiceCopy(r)
  \/ Tick

SpecInvoiceRace == InitInvoiceRace /\ [][NextInvoiceRace]_vars

\* NumReqs stock_adjust requests in worker threads of their own, each for
\* item 1 or 2 of warehouse 1 with a delta; item 1 has no Stock row yet or one
\* of some qty, item 2 has none
StockRaceOps == {[op |-> "stock_adjust", arg |-> <<it, d>>] : it \in Items, d \in Qtys}

InitStockRace ==
  /\ \E t \in SeqsUpTo(0..MaxQty, 1), ops \in [Reqs -> StockRaceOps] :
       /\ db = [EmptyDb EXCEPT !.stock[<<1, 1>>] = t]
       /\ req = [init |-> Len(t), r |-> [r \in Reqs |-> NewReq(ops[r].op, ops[r].arg)]]
  /\ last = Resp("startup", 0, 0, "ok")
  /\ now = FirstMonth

NextStockRace ==
  \/ \E r \in Reqs : GetStockSelect(r)
  \/ \E r \in Reqs : GetStockInsert(r)
  \/ \E r \in Reqs : AdjustRow(r)

SpecStockRace == InitStockRace /\ [][NextStockRace]_vars

\* NumReqs creation requests of any of the four numbered documents in worker
\* threads of their own, while the month may pass.  The database holds order 1,
\* APPROVED and without lines (its challan needs no stock), and order 2,
\* DISPATCHED, with its OPEN challan.
NumberRaceOps ==
  {[op |-> o, arg |-> 1] : o \in {"so_create", "challan_create", "invoice_create", "returns_create"}}

InitNumberRace ==
  /\ \E ops \in [Reqs -> NumberRaceOps] :
       /\ db = [EmptyDb EXCEPT
                  !.orders = <<[party_id |-> 1, warehouse_id |-> 1, status |-> "APPROVED"],
                               [party_id |-> 1, warehouse_id |-> 1, status |-> "DISPATCHED"]>>,
                  !.so_no = [i \in 1..2 |-> [head |-> <<"SO", FirstMonth>>, tail |-> zfill(Str(i), 4)]],
                  !.challans = <<[so_id |-> 2, status |-> "OPEN"]>>,
                  !.dc_no = <<next_no("DC", EmptyDb, FirstMonth)>>]
       /\ req = [init |-> 0, r |-> [r \in Reqs |-> NewReq(ops[r].op, ops[r].arg)]]
  /\ last = Resp("startup", 0, 0, "ok")
  /\ now = FirstMonth

NextNumberRace ==
  \/ \E r \in Reqs : ReadNumber(r)
  \/ \E r \in Reqs : InsertDocument(r)
  \/ \E r \in Reqs : ChallanCheck(r)
  \/ \E r \in Reqs : ChallanNumber(r)
  \/ \E r \in Reqs : ChallanInsert(r)
  \/ \E r \in Reqs : ChallanLines(r)
  \/ \E r \in Reqs : RequestCommit(r)
  \/ \E r \in Reqs : InvoiceCheck(r)
  \/ \E r \in Reqs : InvoiceNumber(r)
  \/ \E r \in Reqs : InvoiceInsert(r)
  \/ \E r \in Reqs : InvoiceCopy(r)
  \/ Tick

SpecNumberRace == InitNumberRace /\ [][NextNumberRace]_vars

\* the stock ledger of the v1 application: adjustments, invoice lines that
\* take stock out and return lines that put it back, the quantities being
\* an integer the forms submit, of either sign
NextV1Stock ==
  \/ \E wh \in Warehouses, d \in QtysV1 : stock_adjust(wh, 1, d) /\ UNCHANGED <<req, now>>
  \/ \E p \in Parties, wh \in Warehouses :
       Len(db.invoices) < MaxInvoices /\ invoices_create(p, wh, Today) /\ UNCHANGED <<req, now>>
  \/ \E inv \in 1..MaxInvoices, q \in QtysV1, r \in RatesV1 :
       invoice_add_line(inv, 1, q, r, 0) /\ UNCHANGED <<req, now>>
  \/ \E p \in Parties, wh \in Warehouses :
       Len(db.returns) < MaxReturns /\ returns_create_v1(p, wh) /\ UNCHANGED <<req, now>>
  \/ \E rn \in 1..MaxReturns, q \in QtysV1 : return_add_line(rn, 1, q) /\ UNCHANGED <<req, now>>

SpecV1Stock == Init /\ [][NextV1Stock]_vars

\* ------------------------------------------------------------ helpers of the properties
\* the qty of the Stock row of key k, 0 while the row does not exist
QtyOf(d, k) == IF d.stock[k] = <<>> THEN 0 ELSE d.stock[k][1]

SameStockQty(d, e) == \A k \in DOMAIN d.stock : QtyOf(d, k) = QtyOf(e, k)

ChallansOf(d, so_id) == {i \in DOMAIN d.challans : d.challans[i].so_id = so_id}

RECURSIVE SumQty(_, _)
\* the sum of qty over the lines lns (as SelectWhere gives them) of item it
SumQty(lns, it) ==
  IF lns = <<>> THEN 0
  ELSE (IF Head(lns).row.item_id = it THEN Head(lns).row.qty ELSE 0) + SumQty(Tail(lns), it)

RECURSIVE CopiedLines(_, _)
\* the ChallanLine rows that copy the lines lns for challan dc_id
CopiedLines(lns, dc_id) ==
  IF lns = <<>> THEN <<>>
  ELSE <<[dc_id |-> dc_id, item_id |-> Head(lns).row.item_id, qty |-> Head(lns).row.qty]>>
       \o CopiedLines(Tail(lns), dc_id)

\* the step just taken answered request op with HTTP status code
Answered(op, code) == last'.op = op /\ last'.code = code

\* ------------------------------------------------------------ C1
\* C1: after any sequence of stock_adjust, returns_add_line and returns_post
\* requests every Stock row has qty >= 0.
C1_StockNeverNegative ==
  \A k \in DOMAIN db.stock : \A i \in DOMAIN db.stock[k] : db.stock[k][i] >= 0

\* ------------------------------------------------------------ C2
\* C2: a challan_create that fails with insufficient stock leaves the qty of
\* every Stock row as it was before the request (stated for orders whose
\* quantities are all positive).
C2_FailedChallanKeepsStock ==
  [][(/\ Answered("challan_create", 400) /\ last'.msg = "Insufficient stock"
      /\ \A i \in DOMAIN db.soLines : db.soLines[i].qty > 0)
       => SameStockQty(db, db')]_vars

\* ------------------------------------------------------------ C3
\* C3: a challan_create that fails adds no Challan row and no ChallanLine row
\* and leaves the status of every SalesOrder unchanged.
C3_FailedChallanWritesNothing ==
  [][Answered("challan_create", 400)
       => /\ db'.challans = db.challans
          /\ db'.dcLines = db.dcLines
          /\ db'.orders = db.orders]_vars

\* ------------------------------------------------------------ C4
\* C4: once a SalesOrder is DISPATCHED (or CANCELLED) no request changes its
\* status again.
C4_DispatchedIsTerminal ==
  [][\A so \in DOMAIN db.orders :
        db.orders[so].status \in {"DISPATCHED", "CANCELLED"}
          => db'.orders[so].status = db.orders[so].status]_vars

\* ------------------------------------------------------------ C5
\* C5: at most one Challan row references a given SalesOrder.
C5_OneChallanPerOrder ==
  \A so \in DOMAIN db.orders : Cardinality(ChallansOf(db, so)) <= 1

\* ------------------------------------------------------------ C9
\* C9: challan_create on an order that is missing or whose status is not
\* APPROVED answers 400 and writes nothing; a Challan row is only ever added
\* for an order that was APPROVED when the request arrived.
C9_ChallanOnlyFromApproved ==
  [][/\ (last'.op = "challan_create" /\ StatusOf(db.orders, last'.id) # "APPROVED")
          => (last'.code = 400 /\ db' = db)
     /\ \A i \in DOMAIN db'.challans \ DOMAIN db.challans :
          StatusOf(db.orders, db'.challans[i].so_id) = "APPROVED"]_vars

\* a challan_create was turned away on a DISPATCHED order
C9_Witness ==
  /\ last.op = "challan_create" /\ last.code = 400 /\ last.msg = "SO not approved"
  /\ StatusOf(db.orders, last.id) = "DISPATCHED"

\* ------------------------------------------------------------ C10
\* C10: a challan_create that succeeds adds exactly one Challan (status OPEN,
\* of that order), one ChallanLine per SalesOrderLine of the order with the
\* same item and qty, sets the order DISPATCHED, and lowers the Stock qty of
\* each (order.warehouse_id, item) by the sum of the order's quantities of
\* that item; nothing else changes.
C10_ChallanSuccessEffect ==
  [][Answered("challan_create", 303) =>
       LET so_id == last'.id
           dc_id == Len(db.challans) + 1
           lns == SelectWhere(db.soLines, "so_id", so_id)
           wh == db.orders[so_id].warehouse_id
       IN /\ db'.challans = Append(db.challans, [so_id |-> so_id, status |-> "OPEN"])
          /\ db'.dcLines = db.dcLines \o CopiedLines(lns, dc_id)
          /\ db'.orders = [db.orders EXCEPT ![so_id].status = "DISPATCHED"]
          /\ db'.soLines = db.soLines
          /\ \A k \in DOMAIN db.stock :
               QtyOf(db', k) = QtyOf(db, k) - (IF k[1] = wh THEN SumQty(lns, k[2]) ELSE 0)]_vars

\* a challan was created for an order of two lines with positive quantities
C10_Witness ==
  /\ last.op = "challan_create" /\ last.code = 303
  /\ LET lns == SelectWhere(db.soLines, "so_id", last.id)
     IN /\ Len(lns) = 2
        /\ \A i \in DOMAIN lns : lns[i].row.qty > 0
        /\ db.challans[Len(db.challans)].so_id = last.id
        /\ db.orders[last.id].status = "DISPATCHED"

\* ------------------------------------------------------------ C6
\* C6: at most one Invoice row references a given Challan, and a Challan has
\* an Invoice exactly when its status is INVOICED (so invoice_create, which
\* wants status OPEN, cannot add a second one).
InvoicesOf(d, dc_id) == {i \in DOMAIN d.invoices : d.invoices[i].dc_id = dc_id}

C6_OneInvoicePerChallan ==
  \A dc \in DOMAIN db.challans :
    /\ Cardinality(InvoicesOf(db, dc)) <= 1
    /\ (db.challans[dc].status = "INVOICED") <=> (InvoicesOf(db, dc) # {})

\* a second invoice_create on an invoiced challan was turned away
C6_Witness ==
  /\ last.op = "invoice_create" /\ last.code = 400 /\ last.msg = "Challan not available"
  /\ StatusOf(db.challans, last.id) = "INVOICED"
  /\ Cardinality(InvoicesOf(db, last.id)) = 1

\* ------------------------------------------------------------ C7
\* C7: when the requests in flight against one Stock row have all answered,
\* the row's qty is its initial qty minus what the requests that succeeded
\* took (no update is lost), and they did not take more than there was.
RECURSIVE TakenBy(_)
\* what the requests 1..n that answered 303 took from the row
TakenBy(n) ==
  IF n = 0 THEN 0
  ELSE TakenBy(n - 1)
       + (IF req.r[n].code # 303 THEN 0
          ELSE IF req.r[n].op = "stock_adjust" THEN 0 - req.r[n].arg
          ELSE SumQty(SelectWhere(db.soLines, "so_id", req.r[n].arg), 1))

C7_NoLostUpdate ==
  (req.r # <<>> /\ \A r \in Reqs : req.r[r].pc = "done")
    => /\ QtyOf(db, <<1, 1>>) = req.init - TakenBy(NumReqs)
       /\ TakenBy(NumReqs) <= req.init

\* ------------------------------------------------------------ C8
\* C8: in every state the status of every Invoice is the one derived from
\* its current totals.
C8_StatusIsDerived ==
  \A inv \in DOMAIN db.invoices :
    db.invoices[inv].status = DerivedStatus(invoice_totals(db, inv))

\* ------------------------------------------------------------ C11
\* C11: a successful invoice_create adds exactly one Invoice, of the party and
\* warehouse of the challan's order and with place_of_supply_state =
\* party.state, adds one InvoiceLine per ChallanLine with that line's item and
\* qty, rate and discount_percent from apply_party_price and gst_percent from
\* the item as they are at that moment, and sets the challan INVOICED.
C11_InvoiceSuccessEffect ==
  [][Answered("invoice_create", 303) =>
       LET dc_id == last'.id
           so == db.orders[db.challans[dc_id].so_id]
           inv_id == Len(db.invoices) + 1
           n == Len(db.invLines)
           dcl == SelectWhere(db.dcLines, "dc_id", dc_id)
       IN /\ Len(db'.invoices) = inv_id
          /\ SubSeq(db'.invoices, 1, inv_id - 1) = db.invoices
          /\ db'.invoices[inv_id].dc_id = dc_id
          /\ db'.invoices[inv_id].party_id = so.party_id
          /\ db'.invoices[inv_id].warehouse_id = so.warehouse_id
          /\ db'.invoices[inv_id].place_of_supply_state = db.parties[so.party_id].state
          /\ Len(db'.invLines) = n + Len(dcl)
          /\ SubSeq(db'.invLines, 1, n) = db.invLines
          /\ \A i \in DOMAIN dcl :
               LET ln == db'.invLines[n + i]
                   it == Item(dcl[i].row.item_id)
                   rd == apply_party_price(db, so.party_id, it)
               IN /\ ln.invoice_id = inv_id
                  /\ ln.item_id = dcl[i].row.item_id
                  /\ ln.qty = dcl[i].row.qty
                  /\ ln.rate = rd[1]
                  /\ ln.discount_percent = rd[2]
                  /\ ln.gst_percent = it.gst_percent
          /\ db'.challans = [db.challans EXCEPT ![dc_id].status = "INVOICED"]]_vars

\* an invoice was made for a party of Uttar Pradesh whose price of the item
\* changed after the order line was written
C11_Witness ==
  /\ last.op = "invoice_create" /\ last.code = 303
  /\ LET inv_id == Len(db.invoices)
         lns == SelectWhere(db.invLines, "invoice_id", inv_id)
     IN /\ db.invoices[inv_id].place_of_supply_state = "Uttar Pradesh"
        /\ lns # <<>>
        /\ lns[1].row.discount_percent = 10
        /\ \E j \in DOMAIN db.soLines : db.soLines[j].discount_percent = 0

\* ------------------------------------------------------------ helpers of C12..C15
\* the party a challan's invoice is made out to
InvoiceParty(d, dc_id) == d.orders[d.challans[dc_id].so_id].party_id

CreditMsgs == {"Party is BLOCKED", "Overdue pending", "Credit limit exceeded"}

\* the step just taken is an invoice_create that got as far as credit control
CreditStep == last'.op = "invoice_create" /\ StatusOf(db.challans, last'.id) = "OPEN"

\* projected_total of the invoice of challan dc_id, in 1/10000 paise
ProjectedOf(d, dc_id) ==
  Projected(d, InvoiceParty(d, dc_id), SelectWhere(d.dcLines, "dc_id", dc_id), 1)

\* ------------------------------------------------------------ C12
\* C12: credit control tests blocked, then overdue, then the credit limit,
\* and stops at the first that fails: a blocked party gets the blocked error;
\* an unblocked party with overdue > 0 gets the overdue error with that
\* amount; the credit-limit error is given only to a party that is neither.
C12_CreditControlOrder ==
  [][CreditStep =>
       LET p == InvoiceParty(db, last'.id)
           summary == calc_party_summary(db, p)
       IN /\ db.parties[p].is_blocked
               => (last'.code = 400 /\ last'.msg = "Party is BLOCKED")
          /\ (~db.parties[p].is_blocked /\ summary.overdue > 0)
               => (last'.code = 400 /\ last'.msg = "Overdue pending"
                   /\ last'.detail = <<summary.overdue>>)
          /\ last'.msg = "Credit limit exceeded"
               => (~db.parties[p].is_blocked /\ summary.overdue = 0)]_vars

\* the overdue error was given to a party whose new invoice would also have
\* taken it over its credit limit
C12_Witness ==
  /\ last.op = "invoice_create" /\ last.msg = "Overdue pending"
  /\ last.detail = <<calc_party_summary(db, InvoiceParty(db, last.id)).overdue>>
  /\ LET p == InvoiceParty(db, last.id)
     IN /\ db.parties[p].credit_limit > 0
        /\ calc_party_summary(db, p).outstanding * 10000 + ProjectedOf(db, last.id)
             > db.parties[p].credit_limit * 10000

\* ------------------------------------------------------------ C13
\* C13: for a party that is not blocked and has no overdue balance,
\* invoice_create fails with the credit-limit error (reporting limit,
\* outstanding, new invoice) exactly when credit_limit > 0 and
\* outstanding + projected_total > credit_limit; otherwise it succeeds.
C13_CreditLimitIff ==
  [][CreditStep =>
       LET p == InvoiceParty(db, last'.id)
           summary == calc_party_summary(db, p)
           limit == db.parties[p].credit_limit
           projected_total == ProjectedOf(db, last'.id)
           exceeds == limit > 0 /\ summary.outstanding * 10000 + projected_total > limit * 10000
       IN (~db.parties[p].is_blocked /\ summary.overdue = 0)
            => /\ exceeds => /\ last'.code = 400 /\ last'.msg = "Credit limit exceeded"
                             /\ last'.detail = <<limit, summary.outstanding, Round(projected_total, 10000)>>
               /\ ~exceeds => last'.code = 303]_vars

\* ------------------------------------------------------------ C14
\* C14: an invoice_create that credit control turns away changes nothing in
\* the database; and once the party owes nothing (every invoice paid), is
\* not blocked and the new invoice alone is within a limit >= 0, the request
\* on the still OPEN challan succeeds.
C14_CreditFailureRetryable ==
  [][/\ (Answered("invoice_create", 400) /\ last'.msg \in CreditMsgs) => db' = db
     /\ CreditStep =>
          LET p == InvoiceParty(db, last'.id)
              limit == db.parties[p].credit_limit
          IN (/\ ~db.parties[p].is_blocked
              /\ limit >= 0
              /\ \A i \in DOMAIN db.invoices :
                    db.invoices[i].party_id = p => invoice_totals(db, i).balance <= 0
              /\ (limit = 0 \/ ProjectedOf(db, last'.id) <= limit * 10000))
               => last'.code = 303]_vars

\* an invoice was made although the party's earlier invoice is past its due
\* date: that one has been paid in full
C14_Witness ==
  /\ last.op = "invoice_create" /\ last.code = 303
  /\ Len(db.invoices) = 2
  /\ LET terms == db.parties[db.invoices[1].party_id].payment_terms_days
     IN /\ db.invoices[2].party_id = db.invoices[1].party_id
        /\ terms > 0 /\ Today > db.invoices[1].invoice_date + terms
        /\ invoice_totals(db, 1).total > 0
        /\ invoice_totals(db, 1).balance <= 0

\* ------------------------------------------------------------ C15
\* C15: right after a successful invoice_create the total of the new invoice
\* (invoice_totals) is the projected_total, rounded to 2 decimals, that the
\* same request tested against the credit limit.
C15_ProjectedIsInvoiceTotal ==
  [][Answered("invoice_create", 303) =>
       invoice_totals(db', Len(db.invoices) + 1).total = Round(ProjectedOf(db, last'.id), 10000)]_vars

\* an invoice of one copy of item 1 at a party discount of 10 percent: 90.72
C15_Witness ==
  /\ last.op = "invoice_create" /\ last.code = 303
  /\ invoice_totals(db, Len(db.invoices)).total = 9072

\* ------------------------------------------------------------ C16
\* C16: invoice_create, whether it succeeds or fails, leaves the Stock table
\* as it was.
C16_InvoiceKeepsStock ==
  [][last'.op = "invoice_create" => db'.stock = db.stock]_vars

\* an invoice was made while the warehouse held stock of the invoiced item
C16_Witness ==
  /\ last.op = "invoice_create" /\ last.code = 303
  /\ \E i \in DOMAIN db.invLines :
       /\ db.invLines[i].invoice_id = Len(db.invoices)
       /\ QtyOf(db, <<db.invoices[Len(db.invoices)].warehouse_id, db.invLines[i].item_id>>) > 0

\* ------------------------------------------------------------ C17
\* C17: so_add_line adds a SalesOrderLine only to an order that is OPEN; on
\* an APPROVED, DISPATCHED or CANCELLED order it is rejected and the
\* SalesOrderLine table is left as it was.
C17_LinesOnlyWhileOpen ==
  [][(last'.op = "so_add_line" /\ StatusOf(db.orders, last'.id) \in {"APPROVED", "DISPATCHED", "CANCELLED"})
       => (last'.code # 303 /\ db'.soLines = db.soLines)]_vars

\* ------------------------------------------------------------ C18
\* C18: returns_post on a note that is not OPEN answers 400 and writes
\* nothing; on an OPEN note it adds the qty of each of its lines to the Stock
\* row of (note.warehouse_id, line.item_id) and sets the note POSTED; a
\* POSTED note and its lines never change again, so each line is added to
\* stock once.
C18_ReturnPostedOnce ==
  [][/\ (last'.op = "returns_post" /\ StatusOf(db.returns, last'.id) # "OPEN")
          => (last'.code = 400 /\ db' = db)
     /\ Answered("returns_post", 303) =>
          LET rn == last'.id
              lns == SelectWhere(db.retLines, "return_id", rn)
          IN /\ db'.returns = [db.returns EXCEPT ![rn].status = "POSTED"]
             /\ db'.retLines = db.retLines
             /\ \A k \in DOMAIN db.stock :
                  QtyOf(db', k) = QtyOf(db, k)
                    + (IF k[1] = db.returns[rn].warehouse_id THEN SumQty(lns, k[2]) ELSE 0)
     /\ \A rn \in DOMAIN db.returns :
          db.returns[rn].status = "POSTED"
            => /\ db'.returns[rn] = db.returns[rn]
               /\ SelectWhere(db'.retLines, "return_id", rn) = SelectWhere(db.retLines, "return_id", rn)]_vars

\* a second returns_post on a posted note of two lines was turned away
C18_Witness ==
  /\ last.op = "returns_post" /\ last.code = 400
  /\ StatusOf(db.returns, last.id) = "POSTED"
  /\ Len(SelectWhere(db.retLines, "return_id", last.id)) = 2
  /\ \E k \in DOMAIN db.stock : QtyOf(db, k) > 1

\* ------------------------------------------------------------ C19
\* C19: a stock_adjust whose delta would take the row's qty below zero
\* answers 400 and leaves every persisted qty as it was; any other delta,
\* one that takes the qty to exactly zero included, succeeds and the row's
\* qty becomes qty + delta.
C19_AdjustBelowZeroFails ==
  [][\A wh \in Warehouses, it \in Items, delta \in (0 - MaxStock)..MaxStock :
       stock_adjust(wh, it, delta) =>
         LET q == QtyOf(db, <<wh, it>>)
         IN IF q + delta < 0
            THEN last'.code = 400 /\ SameStockQty(db, db')
            ELSE /\ last'.code = 303
                 /\ \A k \in DOMAIN db.stock :
                      QtyOf(db', k) = IF k = <<wh, it>> THEN q + delta ELSE QtyOf(db, k)]_vars

\* a stock_adjust was turned away on a row that holds stock, which it still holds
C19_Witness ==
  /\ last.op = "stock_adjust" /\ last.code = 400
  /\ \E k \in DOMAIN db.stock : QtyOf(db, k) > 0

\* ------------------------------------------------------------ C20
\* C20: the status of an invoice is derived from its totals as: total <= 0
\* gives OPEN whatever was paid; otherwise balance <= 0.001 gives PAID,
\* over-payment included; otherwise paid > 0 gives PARTIAL; otherwise OPEN.
\* (v1: the derivation is applied after every line and every payment.)
C20_StatusDerivation ==
  \A inv \in DOMAIN db.invoices :
    LET t == invoice_totals_v1(db, inv)
    IN db.invoices[inv].status =
         IF t.total <= 0 THEN "OPEN"
         ELSE IF t.balance <= 0 THEN "PAID"
         ELSE IF t.paid > 0 THEN "PARTIAL"
         ELSE "OPEN"

\* an invoice of 500.00 paid 600.00 is PAID, and one without lines that
\* received a payment is OPEN
C20_Witness ==
  /\ last.op = "payments_create"
  /\ \E i, j \in DOMAIN db.invoices :
       /\ invoice_totals_v1(db, i).total = 50000
       /\ invoice_totals_v1(db, i).balance < 0
       /\ db.invoices[i].status = "PAID"
       /\ invoice_totals_v1(db, j).total = 0
       /\ invoice_totals_v1(db, j).paid > 0
       /\ db.invoices[j].status = "OPEN"

\* ------------------------------------------------------------ C21
RECURSIVE TaxableSum(_, _, _)
\* sum of qty * rate * (100 - discount_percent) over the first n InvoiceLine
\* rows that belong to invoice inv (1/100 paise)
TaxableSum(d, inv, n) ==
  IF n = 0 THEN 0
  ELSE TaxableSum(d, inv, n - 1)
       + (IF d.invLines[n].invoice_id = inv
          THEN d.invLines[n].qty * d.invLines[n].rate * (100 - d.invLines[n].discount_percent)
          ELSE 0)

RECURSIVE GstSum(_, _, _)
\* sum of taxable * gst_percent over the same rows (1/10000 paise)
GstSum(d, inv, n) ==
  IF n = 0 THEN 0
  ELSE GstSum(d, inv, n - 1)
       + (IF d.invLines[n].invoice_id = inv
          THEN d.invLines[n].qty * d.invLines[n].rate * (100 - d.invLines[n].discount_percent)
               * d.invLines[n].gst_percent
          ELSE 0)

RECURSIVE PaidSum(_, _, _)
\* sum of amount over the first n Payment rows linked to invoice inv (paise)
PaidSum(d, inv, n) ==
  IF n = 0 THEN 0
  ELSE PaidSum(d, inv, n - 1) + (IF d.payments[n].invoice_id = inv THEN d.payments[n].amount ELSE 0)

\* C21: invoice_totals gives subtotal = sum of qty*rate*(1 - discount/100)
\* over the invoice's lines, gst = sum of taxable*gst_percent/100, total =
\* subtotal + gst, paid = sum of the payments linked to the invoice, balance =
\* total - paid, each rounded to 2 decimals only after summing.
C21_InvoiceTotals ==
  (last.op = "invoice_view" /\ last.code = 200) =>
    LET sub == TaxableSum(db, last.id, Len(db.invLines))
        gst == GstSum(db, last.id, Len(db.invLines))
        paid == PaidSum(db, last.id, Len(db.payments))
    IN last.totals = [subtotal |-> Round(sub, 100),
                      gst |-> Round(gst, 10000),
                      total |-> Round(sub * 100 + gst, 10000),
                      paid |-> paid,
                      balance |-> Round(sub * 100 + gst - paid * 10000, 10000)]

\* lines (qty 2, rate 100, gst 12, disc 10) and (qty 1, rate 50, gst 0,
\* disc 0): subtotal 230, gst 21.6, total 251.6
C21_Witness ==
  /\ last.op = "invoice_view" /\ last.code = 200
  /\ Len(SelectWhere(db.invLines, "invoice_id", last.id)) = 2
  /\ last.totals.subtotal = 23000
  /\ last.totals.gst = 2160
  /\ last.totals.total = 25160

\* ------------------------------------------------------------ C22
\* the invoices of party p that still have something due
DueInvoices(d, p) ==
  {i \in DOMAIN d.invoices : d.invoices[i].party_id = p /\ invoice_totals(d, i).balance > 0}

\* those of them whose due date (invoice_date + terms) lies before today
LateInvoices(d, p) ==
  {i \in DueInvoices(d, p) :
     /\ d.parties[p].payment_terms_days > 0
     /\ Today > d.invoices[i].invoice_date + d.parties[p].payment_terms_days}

RECURSIVE BalanceSum(_, _)
BalanceSum(d, S) ==
  IF S = {} THEN 0
  ELSE LET i == CHOOSE x \in S : TRUE
       IN invoice_totals(d, i).balance + BalanceSum(d, S \ {i})

\* C22: the party summary has outstanding = sum of balance over exactly the
\* party's invoices with balance > 0 and overdue = sum of balance over those
\* of them with payment_terms_days > 0 and today later than invoice_date +
\* terms; so overdue <= outstanding, and overdue = 0 when the terms are 0.
C22_PartySummary ==
  \A p \in Parties :
    LET summary == calc_party_summary(db, p)
    IN /\ summary.outstanding = BalanceSum(db, DueInvoices(db, p))
       /\ summary.overdue = BalanceSum(db, LateInvoices(db, p))
       /\ summary.overdue <= summary.outstanding
       /\ db.parties[p].payment_terms_days = 0 => summary.overdue = 0

\* one invoice over-paid (90.72 billed, 112.00 paid) next to an unpaid one:
\* the outstanding is the whole balance of the unpaid one
C22_Witness ==
  /\ last.op = "add_payment" /\ last.code = 303
  /\ \E p \in Parties, i, j \in DOMAIN db.invoices :
       /\ db.invoices[i].party_id = p /\ db.invoices[j].party_id = p
       /\ invoice_totals(db, i).balance < 0
       /\ invoice_totals(db, j).balance > 0
       /\ calc_party_summary(db, p).outstanding = invoice_totals(db, j).balance

\* ------------------------------------------------------------ C23
\* D clamped to [0,100]
Clamped(D) == IF D < 0 THEN 0 ELSE IF D > 100 THEN 100 ELSE D

\* the amounts in paise nearest to n / 100
Nearest(n) == {r \in 0..((n \div 100) + 1) : 2 * (100 * r - n) <= 100 /\ 2 * (n - 100 * r) <= 100}

\* C23: for a (party,item) pair with an override of discount D the pricing
\* resolver returns discount = D clamped to [0,100] and rate = sale_price *
\* (1 - discount/100) rounded to 2 decimals; with no override it returns
\* (sale_price, 0); it modifies no state: the line so_add_line appends carries
\* what the resolver returned and nothing else of the database changes.
C23_PricingResolver ==
  [][(Len(db'.soLines) = Len(db.soLines) + 1) =>
       LET ln == db'.soLines[Len(db'.soLines)]
           pp == db.partyPrice[<<db.orders[ln.so_id].party_id, ln.item_id>>]
       IN /\ pp = <<>> => ln.rate = Item(ln.item_id).sale_price /\ ln.discount_percent = 0
          /\ pp # <<>> =>
               /\ ln.discount_percent = Clamped(pp[1])
               /\ ln.rate \in Nearest(Item(ln.item_id).sale_price * (100 - Clamped(pp[1])))
          /\ db' = [db EXCEPT !.soLines = Append(@, ln)]]_vars

\* an override of 150 is applied as 100 (rate 0), one of 33 on the item of
\* 33.33 gives 22.33
C23_Witness ==
  /\ last.op = "so_add_line" /\ last.code = 303
  /\ Len(db.soLines) = 2
  /\ db.soLines[1].item_id = 1 /\ db.soLines[1].rate = 0 /\ db.soLines[1].discount_percent = 100
  /\ db.soLines[2].item_id = 2 /\ db.soLines[2].rate = 2233 /\ db.soLines[2].discount_percent = 33
  /\ db.partyPrice[<<1, 1>>] = <<150>>

\* ------------------------------------------------------------ C24
\* C24: invoice lines are re-priced at invoice time: the InvoiceLine rows of
\* a successful invoice_create carry the rate and discount the resolver gives
\* in the state current at invoice_create, whatever the SalesOrderLine
\* captured, and neither invoice_create nor set_party_price changes a
\* SalesOrderLine.
C24_RepricedAtInvoiceTime ==
  [][/\ Answered("invoice_create", 303) =>
          /\ db'.soLines = db.soLines
          /\ \A k \in (Len(db.invLines) + 1)..Len(db'.invLines) :
               LET ln == db'.invLines[k]
                   rd == apply_party_price(db, InvoiceParty(db, last'.id), Item(ln.item_id))
               IN ln.rate = rd[1] /\ ln.discount_percent = rd[2]
     /\ last'.op = "set_party_price" => db'.soLines = db.soLines]_vars

\* the order line was written at the list price 100.00, the price override of
\* 10 percent came later, and the invoice line carries 90.00 at 10 percent
C24_Witness ==
  /\ last.op = "invoice_create" /\ last.code = 303
  /\ \E k \in DOMAIN db.invLines, j \in DOMAIN db.soLines :
       /\ db.invLines[k].invoice_id = Len(db.invoices)
       /\ db.soLines[j].so_id = db.challans[last.id].so_id
       /\ db.soLines[j].item_id = db.invLines[k].item_id
       /\ db.soLines[j].rate = 10000 /\ db.soLines[j].discount_percent = 0
       /\ db.invLines[k].rate = 9000 /\ db.invLines[k].discount_percent = 10

\* ------------------------------------------------------------ C25
\* C25: issued documents are immutable snapshots: no step changes the
\* InvoiceLine rows of an invoice that exists or the subtotal, gst and total
\* invoice_totals reports for it; only add_payment changes its paid and
\* balance; a set_party_price leaves every party's outstanding as it was.
C25_IssuedInvoiceImmutable ==
  [][/\ \A i \in DOMAIN db.invoices :
          LET old == invoice_totals(db, i)
              new == invoice_totals(db', i)
          IN /\ i \in DOMAIN db'.invoices
             /\ SelectWhere(db'.invLines, "invoice_id", i) = SelectWhere(db.invLines, "invoice_id", i)
             /\ new.subtotal = old.subtotal /\ new.gst = old.gst /\ new.total = old.total
             /\ last'.op # "add_payment" => new = old
     /\ last'.op = "set_party_price" =>
          \A p \in Parties : calc_party_summary(db', p) = calc_party_summary(db, p)]_vars

\* the price override of 10 percent was set after an invoice at the list
\* price was issued; the invoice still reads 100.00 + 12.00
C25_Witness ==
  /\ last.op = "set_party_price"
  /\ \E i \in DOMAIN db.invoices :
       /\ db.partyPrice[<<db.invoices[i].party_id, 1>>] = <<10>>
       /\ invoice_totals(db, i).total = 11200
       /\ calc_party_summary(db, db.invoices[i].party_id).outstanding = 11200

\* ------------------------------------------------------------ C29
\* C29: get_stock is idempotent: two calls for the same (warehouse,item) with
\* no adjustment between them give the same row with the same qty, a row of
\* qty 0 is created and committed by the first call only when the pair had
\* none, and no pair ever has a second row.
C29_GetStockIdempotent ==
  \A wh \in Warehouses, it \in Items :
    LET k == <<wh, it>>
        s0 == Begin(db)
        s1 == get_stock(s0, wh, it)
        s2 == get_stock(s1, wh, it)
    IN /\ s2 = s1
       /\ StockQty(s2.work.stock, wh, it) = StockQty(s1.work.stock, wh, it)
       /\ HasStock(db.stock, wh, it) => s1 = s0
       /\ ~HasStock(db.stock, wh, it) =>
            /\ s1.work.stock = [db.stock EXCEPT ![k] = <<0>>]
            /\ s1.com = s1.work
       /\ Len(s2.work.stock[k]) = 1
       /\ Len(db.stock[k]) <= 1

\* a stock_adjust that failed on a pair without a row left the row get_stock
\* created, at qty 0, while the other item has no row yet
C29_Witness ==
  /\ last.op = "stock_adjust" /\ last.code = 400
  /\ \E wh \in Warehouses :
       /\ db.stock[<<wh, 1>>] = <<0>>
       /\ db.stock[<<wh, 2>>] = <<>>

\* ------------------------------------------------------------ C30
\* C30: the challan status INVOICED is terminal and ChallanLine rows are
\* never modified: a challan that is INVOICED stays INVOICED with exactly the
\* lines it has, and every ChallanLine row that exists stays as it is.
C30_InvoicedIsTerminal ==
  [][/\ \A dc \in DOMAIN db.challans :
          db.challans[dc].status = "INVOICED" =>
            /\ StatusOf(db'.challans, dc) = "INVOICED"
            /\ SelectWhere(db'.dcLines, "dc_id", dc) = SelectWhere(db.dcLines, "dc_id", dc)
     /\ Len(db'.dcLines) >= Len(db.dcLines)
     /\ SubSeq(db'.dcLines, 1, Len(db.dcLines)) = db.dcLines]_vars

\* a second challan of the order was dispatched after the first one was
\* invoiced; the first is still INVOICED with its one line
C30_Witness ==
  /\ last.op = "challan_create" /\ last.code = 303
  /\ Len(db.challans) = 2
  /\ db.challans[1].status = "INVOICED"
  /\ Len(SelectWhere(db.dcLines, "dc_id", 1)) = 1
  /\ Len(SelectWhere(db.dcLines, "dc_id", 2)) >= 1

\* ------------------------------------------------------------ helpers of C26..C28
\* the numbers of the documents of a prefix, in row id order
NumbersOf(d, prefix) ==
  CASE prefix = "SO" -> d.so_no
    [] prefix = "DC" -> d.dc_no
    [] prefix = "RN" -> d.rn_no
    [] prefix = "INV" -> d.invoice_no

\* the sequence number a 4-digit suffix reads as
Value(tail) == tail[1] * 1000 + tail[2] * 100 + tail[3] * 10 + tail[4]

\* the step made a document of the prefix
Numbered(prefix) == Len(NumbersOf(db', prefix)) = Len(NumbersOf(db, prefix)) + 1

\* ------------------------------------------------------------ C26
\* C26: the number next_no gives a new document is prefix-period-(max+1),
\* max being the largest suffix among the numbers of the prefix's table that
\* start with the current period (other periods are ignored), zero-padded to
\* 4 digits, and 0001 when the period has none.
C26_NextNo ==
  [][\A prefix \in Prefixes :
       Numbered(prefix) =>
         LET col == NumbersOf(db, prefix)
             no == NumbersOf(db', prefix)[Len(col) + 1]
             seqs == {Value(col[i].tail) : i \in {i \in DOMAIN col : col[i].head = <<prefix, now>>}}
         IN /\ no.head = <<prefix, now>>
            /\ Len(no.tail) = 4
            /\ seqs = {} => Value(no.tail) = 1
            /\ seqs # {} => /\ \A x \in seqs : Value(no.tail) >= x + 1
                            /\ \E x \in seqs : Value(no.tail) = x + 1]_vars

\* with INV-202501-0001 and INV-202501-0003 the new invoice is INV-202501-0004
C26_Witness ==
  /\ last.op = "invoices_create" /\ last.code = 303
  /\ now = FirstMonth
  /\ db.invoice_no = <<[head |-> <<"INV", FirstMonth>>, tail |-> <<0, 0, 0, 1>>],
                       [head |-> <<"INV", FirstMonth>>, tail |-> <<0, 0, 0, 3>>],
                       [head |-> <<"INV", FirstMonth>>, tail |-> <<0, 0, 0, 4>>]>>

\* ------------------------------------------------------------ C27
\* C27: in a sequence of so_create, challan_create, invoice_create and
\* returns_create requests made one after the other, the sequence number of
\* each new document is greater than that of every earlier document of its
\* prefix and period, so the numbers of a document type are distinct and no
\* request fails on the unique index.
C27_NumbersIncrease ==
  [][/\ last'.code # 500
     /\ \A prefix \in Prefixes :
          LET col == NumbersOf(db', prefix)
          IN \A i, j \in DOMAIN col :
               /\ (i < j /\ col[i].head = col[j].head) => Value(col[i].tail) < Value(col[j].tail)
               /\ i # j => col[i] # col[j]]_vars

\* three orders, two of one month and one of the next, and two challans, two
\* invoices and two return notes of one month
C27_Witness ==
  /\ Len(db.so_no) = 3
  /\ db.so_no[1].head = db.so_no[2].head /\ db.so_no[3].head # db.so_no[2].head
  /\ Value(db.so_no[2].tail) = 2 /\ Value(db.so_no[3].tail) = 1
  /\ Len(db.dc_no) = 2 /\ db.dc_no[1].head = db.dc_no[2].head
  /\ Len(db.invoice_no) = 2 /\ db.invoice_no[1].head = db.invoice_no[2].head
  /\ Len(db.rn_no) >= 2 /\ db.rn_no[1].head = db.rn_no[2].head

\* ------------------------------------------------------------ C28
\* C28: numbering is a read-then-write race without mutual exclusion per
\* (prefix, period): while a creation request holds a number it has not yet
\* persisted, another request for the same document type can run next_no,
\* and it obtains the same number.
C28_NumberingRace ==
  \A r1, r2 \in Reqs :
    (/\ r1 # r2
     /\ req.r[r1].op = req.r[r2].op
     /\ req.r[r1].pc = "insert" /\ req.r[r2].pc = "start"
     /\ req.r[r1].no.head[2] = now
     /\ ~Duplicate(NumbersOf(db, PrefixOf(req.r[r1].op)), req.r[r1].no))
    => ENABLED (ReadNumber(r2) /\ req'.r[r2].no = req.r[r1].no)

\* two so_create requests hold SO-202501-0002, neither has persisted its order
C28_Witness ==
  /\ Len(db.so_no) = 1
  /\ \E r1, r2 \in Reqs :
       /\ r1 # r2
       /\ req.r[r1].op = "so_create" /\ req.r[r2].op = "so_create"
       /\ req.r[r1].pc = "insert" /\ req.r[r2].pc = "insert"
       /\ req.r[r1].no = req.r[r2].no
       /\ req.r[r1].no = [head |-> <<"SO", FirstMonth>>, tail |-> <<0, 0, 0, 2>>]

\* ------------------------------------------------------------ C31
\* C31: add_payment on an existing invoice succeeds for any amount, whatever
\* the invoice's balance, and records exactly one Payment, linked to that
\* invoice and to the invoice's party; on a missing invoice it answers
\* not-found and records nothing.  So every Payment's party is its invoice's
\* party.
C31_PaymentAlwaysRecorded ==
  [][/\ last'.op = "add_payment" =>
          LET inv == last'.id
          IN IF inv \in DOMAIN db.invoices
            THEN /\ last'.code = 303
                 /\ Len(db'.payments) = Len(db.payments) + 1
                 /\ db'.payments[Len(db'.payments)].invoice_id = inv
                 /\ db'.payments[Len(db'.payments)].party_id = db.invoices[inv].party_id
                 /\ db'.payments[Len(db'.payments)].amount \in AnyAmounts
                 /\ db' = [db EXCEPT !.payments = Append(@, db'.payments[Len(db'.payments)])]
            ELSE /\ last'.code = 404
                 /\ db' = db
     /\ \A i \in DOMAIN db'.payments :
          /\ db'.payments[i].invoice_id \in DOMAIN db'.invoices
          /\ db'.payments[i].party_id = db'.invoices[db'.payments[i].invoice_id].party_id]_vars

\* 300.00 was paid on the invoice of party 2, more than its total
C31_Witness ==
  /\ last.op = "add_payment" /\ last.code = 303
  /\ Len(db.payments) = 1
  /\ db.payments[1] = [party_id |-> 2, invoice_id |-> 2, amount |-> 30000]
  /\ invoice_totals(db, 2).total > 0
  /\ invoice_totals(db, 2).balance < 0

\* ------------------------------------------------------------ credit limits
\* Invoices of both items for parties whose credit limit is positive: item 2
\* (33.33 at 5% GST) makes totals that are rounded to the paisa (34.9965 is
\* billed as 35.00), and the limits are one such invoice, two of them, one
\* invoice of each item, and one that the second invoice passes.
LimitConfigs ==
  {NewParty("", 3500, 0), NewParty("", 7000, 0), NewParty("", 14700, 0), NewParty("", 11200, 0)}

LimitPayments == {1000}

InitLimit ==
  /\ \E cfg \in [Parties -> LimitConfigs] : db = [EmptyDb EXCEPT !.parties = cfg]
  /\ last = Resp("startup", 0, 0, "ok")
  /\ req = NoRequests
  /\ now = FirstMonth

NextLimit ==
  \/ \E wh \in Warehouses, it \in Items : stock_adjust(wh, it, 1) /\ UNCHANGED <<req, now>>
  \/ \E p \in Parties, wh \in Warehouses :
       Len(db.orders) < MaxOrders /\ so_create(p, wh) /\ UNCHANGED <<req, now>>
  \/ \E so \in 1..MaxOrders, it \in Items : so_add_line(so, it, 1) /\ UNCHANGED <<req, now>>
  \/ \E so \in 1..MaxOrders : so_approve(so) /\ UNCHANGED <<req, now>>
  \/ \E so \in 1..MaxOrders : challan_create(so) /\ UNCHANGED <<req, now>>
  \/ \E dc \in 1..MaxChallans : invoice_create(dc, Today) /\ UNCHANGED <<req, now>>
  \/ \E inv \in 1..MaxInvoices, a \in LimitPayments : add_payment(inv, a) /\ UNCHANGED <<req, now>>

SpecLimit == InitLimit /\ [][NextLimit]_vars

\* ------------------------------------------------------------ C32
\* the role-to-operation mapping as stated
StatedRoles(op) ==
  CASE op = "stock_adjust" -> {"ADMIN", "WAREHOUSE"}
    [] op = "returns_post" -> {"ADMIN", "WAREHOUSE"}
    [] op = "challan_create" -> {"ADMIN", "WAREHOUSE", "BILLING"}
    [] op = "so_create" -> {"ADMIN", "BILLING"}
    [] op = "invoice_create" -> {"ADMIN", "BILLING"}
    [] op = "parties_create" -> {"ADMIN", "BILLING"}
    [] op = "add_payment" -> {"ADMIN", "ACCOUNTS"}
    [] op = "statements_view" -> {"ADMIN", "ACCOUNTS"}

StatedOps ==
  {"stock_adjust", "returns_post", "challan_create", "so_create", "invoice_create",
   "parties_create", "add_payment", "statements_view"}

\* C32: the role guards implement the stated mapping: WAREHOUSE may
\* stock_adjust, returns_post and challan_create; BILLING may so_create,
\* challan_create, invoice_create and parties_create; ACCOUNTS may add_payment
\* and statements_view; ADMIN may do all of them; a request without a token,
\* with a token that does not decode, or with a role outside the route's set
\* is answered 401 or 403 and nothing is written.
C32_RoleMapping ==
  [][\A op \in StatedOps, token \in Tokens :
       Request(op, token) =>
         /\ (token.cookie /\ token.valid /\ token.role \in StatedRoles(op)) => last'.code \notin {401, 403}
         /\ (~token.cookie \/ ~token.valid) => (last'.code = 401 /\ db' = db)
         /\ (token.cookie /\ token.valid /\ token.role \notin RolesOf(op)) => (last'.code = 403 /\ db' = db)]_vars


\* ------------------------------------------------------------ C33
RECURSIVE OnceDiscounted(_, _, _, _)
\* sum over the first n InvoiceLine rows of invoice inv of qty * list price *
\* (100 - D), D the party's override discount for the item in database d, 0
\* when there is none (1/100 paise)
OnceDiscounted(d, post, inv, n) ==
  IF n = 0 THEN 0
  ELSE OnceDiscounted(d, post, inv, n - 1)
       + (IF post.invLines[n].invoice_id = inv
          THEN LET ln == post.invLines[n]
                   pp == d.partyPrice[<<post.invoices[inv].party_id, ln.item_id>>]
                   D == IF pp = <<>> THEN 0 ELSE Clamped(pp[1])
               IN ln.qty * Item(ln.item_id).sale_price * (100 - D)
          ELSE 0)

\* C33: the party discount is applied exactly once: the subtotal that
\* invoice_totals computes for an invoice just created is the sum over its
\* lines of qty * list price * (1 - D/100), D being the party's override
\* discount for the item (list 100.00, D = 10, qty 1 gives taxable 90.00).
C33_DiscountAppliedOnce ==
  [][(Len(db'.invoices) = Len(db.invoices) + 1) =>
       LET inv == Len(db'.invoices)
       IN invoice_totals(db', inv).subtotal
            = Round(OnceDiscounted(db, db', inv, Len(db'.invLines)), 100)]_vars


C35_NoDoubleInvoice ==
  \A dc \in DOMAIN db.challans : Cardinality({i \in DOMAIN db.invoices : db.invoices[i].dc_id = dc}) <= 1


\* ------------------------------------------------------------ C36
\* C36: the application's logic alone keeps Stock rows unique: in every
\* reachable state, the states reached by interleaved requests that both call
\* get_stock for a pair without a row included, there is at most one Stock
\* row for each (warehouse_id, item_id).
C36_StockRowsUnique ==
  \A wh \in Warehouses, it \in Items : Len(db.stock[<<wh, it>>]) <= 1


\* ------------------------------------------------------------ C37
\* C37: the persisted numbers of a document type are distinct in every
\* reachable state, whether the requests interleave or not: so_no, dc_no,
\* invoice_no and rn_no are unique keys, so when a request commits a document
\* whose number the column already holds (another request that computed the
\* same number committed first) it fails with no row added, and otherwise its
\* document is persisted with the number it computed.
C37_NumbersUnique ==
  [][/\ \A prefix \in Prefixes :
          LET col == NumbersOf(db', prefix)
          IN \A i, j \in DOMAIN col : i # j => col[i] # col[j]
     /\ \A r \in Reqs :
          (req.r[r].pc \in {"insert", "header"} /\ req'.r[r] # req.r[r]) =>
            LET col == NumbersOf(db, PrefixOf(req.r[r].op))
            IN IF \E i \in DOMAIN col : col[i] = req.r[r].no
               THEN req'.r[r].code = 500 /\ db' = db
               ELSE /\ NumbersOf(db', PrefixOf(req.r[r].op)) = Append(col, req.r[r].no)
                    /\ req'.r[r].code # 500]_vars

\* two invoice_create requests computed INV-202501-0001: the first to commit
\* persisted its invoice, the other failed on the unique index
C37_Witness ==
  /\ Len(db.invoice_no) = 1
  /\ \E r1, r2 \in Reqs :
       /\ r1 # r2
       /\ req.r[r1].op = "invoice_create" /\ req.r[r2].op = "invoice_create"
       /\ req.r[r1].no = req.r[r2].no
       /\ db.invoice_no[1] = req.r[r1].no
       /\ req.r[r1].code = 303 /\ req.r[r2].code = 500


\* ------------------------------------------------------------ C38
\* C38: return lines are frozen once posted: returns_add_line on a note that
\* is POSTED or does not exist answers 400 and adds no ReturnLine (nothing is
\* written); returns_add_line on an OPEN note appends one ReturnLine and
\* changes no Stock row, nor anything else: stock changes at returns_post.
C38_LinesFrozenOncePosted ==
  [][last'.op = "returns_add_line" =>
       LET rn == last'.id
       IN IF StatusOf(db.returns, rn) # "OPEN"
          THEN last'.code = 400 /\ db' = db
          ELSE /\ last'.code = 303
               /\ db'.stock = db.stock
               /\ Len(db'.retLines) = Len(db.retLines) + 1
               /\ db'.retLines[Len(db'.retLines)].return_id = rn
               /\ db' = [db EXCEPT !.retLines = Append(@, db'.retLines[Len(db'.retLines)])]]_vars

\* a returns_add_line on a POSTED note was turned away: the note keeps its one
\* line, which returns_post had added to stock
C38_Witness ==
  /\ last.op = "returns_add_line" /\ last.code = 400
  /\ StatusOf(db.returns, last.id) = "POSTED"
  /\ Len(SelectWhere(db.retLines, "return_id", last.id)) = 1
  /\ \E k \in DOMAIN db.stock : QtyOf(db, k) = db.retLines[1].qty /\ QtyOf(db, k) > 0


\* ------------------------------------------------------------ C39
\* C39: in the v1 application stock never goes negative: after any sequence
\* of stock_adjust, invoice_add_line and return_add_line requests every Stock
\* row has qty >= 0, and an invoice_add_line turned away for insufficient
\* stock leaves the qty of every Stock row and the invoice lines as they were.
C39_V1StockNeverNegative ==
  [][/\ \A k \in DOMAIN db'.stock : \A i \in DOMAIN db'.stock[k] : db'.stock[k][i] >= 0
     /\ (last'.op = "invoice_add_line" /\ last'.code = 400) =>
          (SameStockQty(db', db) /\ db'.invLines = db.invLines)]_vars

====
